---- MODULE Spec2Model ----
(***************************************************************************)
(* Order-management application: entity model (models.py), order           *)
(* processor (models.py, DataProcessor), persistence gateway (db.py),      *)
(* analyzer (analysis.py, DataAnalyzer) and order form (gui.py).           *)
(*                                                                         *)
(* Modelling conventions                                                   *)
(*   - text is a sequence of one-character strings, so that regular        *)
(*     expressions, lower() and lexicographic comparison are computed;     *)
(*   - a datetime is a record [day, us]; its ISO-8601 text is <<day>> when *)
(*     us = 0 and <<day, us>> otherwise, as datetime.isoformat() omits a   *)
(*     zero fractional part;                                               *)
(*   - prices and amounts are integers (exact arithmetic), and a price     *)
(*     can also be the float NaN;                                          *)
(*   - Python's None in an integer field is the value None below, in a     *)
(*     text field the value NoneText.                                      *)
(***************************************************************************)
EXTENDS Integers, Sequences, FiniteSets, TLC

VARIABLES
    db_name,          \* Database.db_name
    clients,          \* table clients, rows in rowid order
    products,         \* table products
    orders,           \* table orders
    order_items,      \* table order_items
    sqlite_sequence,  \* AUTOINCREMENT bookkeeping, one counter per table
    last,             \* the gateway call that has just returned or raised
    returned,         \* ids returned by add_client/add_product/add_order so far
    order,            \* an Order object under construction (models.py)
    sortInput,        \* arguments of the sort_orders call
    sortResult,       \* what sort_orders returned or raised
    filterInput,      \* arguments of the filter_orders call
    filterResult,     \* what filter_orders returned
    candidate,        \* a Client, Product or Order object (models.py)
    validated,        \* what validate() of the candidate returned
    report,           \* what the last DataAnalyzer call returned or raised
    order_items_tree  \* the lines staged in the order form (gui.py)

vars == <<db_name, clients, products, orders, order_items, sqlite_sequence,
          last, returned, order, sortInput, sortResult,
          filterInput, filterResult, candidate, validated, report,
          order_items_tree>>

tables == <<clients, products, orders, order_items, sqlite_sequence>>

\* The calls of DataProcessor.filter_orders, validate() and DataAnalyzer, and
\* the order form
modelVars ==
    <<filterInput, filterResult, candidate, validated, report, order_items_tree>>

(***************************************************************************)
(* Bounds of the model                                                     *)
(***************************************************************************)
MaxInserts == 4
MaxOrderLen == 3
MaxSortLen == 3

None == 0 - 1
NoneText == <<"None">>

\* float('nan'), the one price that is not a number
NaN == 0 - 2

(***************************************************************************)
(* Small helpers                                                           *)
(***************************************************************************)
Max(a, b) == IF a >= b THEN a ELSE b

RECURSIVE SeqMax(_)
SeqMax(s) == IF s = <<>> THEN 0 ELSE Max(Head(s), SeqMax(Tail(s)))

Ids(rows) == [i \in 1..Len(rows) |-> rows[i].id]

(***************************************************************************)
(* Text: character classes, lower(), comparison                            *)
(***************************************************************************)
LowerLetters == {"a", "b", "c", "d", "e", "f", "g", "h", "i", "j", "k", "l", "m",
                 "n", "o", "p", "q", "r", "s", "t", "u", "v", "w", "x", "y", "z"}

UpperLetters == {"A", "B", "C", "D", "E", "F", "G", "H", "I", "J", "K", "L", "M",
                 "N", "O", "P", "Q", "R", "S", "T", "U", "V", "W", "X", "Y", "Z"}

Digits == {"0", "1", "2", "3", "4", "5", "6", "7", "8", "9"}

Letters == LowerLetters \cup UpperLetters

\* Code points of the characters the model's texts are made of (ASCII order:
\* upper-case letters before lower-case ones).
CodePoint(ch) ==
    CASE ch = "C" -> 67
      [] ch = "D" -> 68
      [] ch = "N" -> 78
      [] ch = "c" -> 99
      [] ch = "d" -> 100
      [] ch = "n" -> 110
      [] OTHER -> 0

\* str.__lt__: lexicographic comparison by code point
RECURSIVE TextLess(_, _)
TextLess(a, b) ==
    IF b = <<>> THEN FALSE
    ELSE IF a = <<>> THEN TRUE
    ELSE IF CodePoint(Head(a)) # CodePoint(Head(b))
         THEN CodePoint(Head(a)) < CodePoint(Head(b))
    ELSE TextLess(Tail(a), Tail(b))

(***************************************************************************)
(* datetime: isoformat / fromisoformat / comparison                        *)
(***************************************************************************)
isoformat(dt) == IF dt.us = 0 THEN <<dt.day>> ELSE <<dt.day, dt.us>>

fromisoformat(text) ==
    [day |-> text[1], us |-> IF Len(text) = 1 THEN 0 ELSE text[2]]

DateLess(a, b) == a.day < b.day \/ (a.day = b.day /\ a.us < b.us)

(***************************************************************************)
(* Entity model (models.py)                                                *)
(***************************************************************************)
\* '$' matches at the end of the text and just before a final newline.
MatchEnds(text) ==
    {Len(text)} \cup
    (IF Len(text) > 0 /\ text[Len(text)] = "\n" THEN {Len(text) - 1} ELSE {})

\* re.match(r'^[a-zA-Z0-9._%+-]+@[a-zA-Z0-9.-]+\.[a-zA-Z]{2,}$', email):
\* a local part, '@' at position i, a domain part, the last '.' of the match
\* at position j, then two or more letters up to the end of the text.
EmailLocalChars == Letters \cup Digits \cup {".", "_", "%", "+", "-"}

EmailDomainChars == Letters \cup Digits \cup {".", "-"}

EmailMatches(email) ==
    \E i \in 1..Len(email) : \E j \in 1..Len(email) :
        /\ 1 < i
        /\ i + 1 < j
        /\ email[i] = "@"
        /\ email[j] = "."
        /\ \A k \in 1..(i - 1) : email[k] \in EmailLocalChars
        /\ \A k \in (i + 1)..(j - 1) : email[k] \in EmailDomainChars
        /\ \E e \in MatchEnds(email) :
              j + 2 <= e /\ \A k \in (j + 1)..e : email[k] \in Letters

\* self.phone.replace(" ", "")
RECURSIVE RemoveSpaces(_)
RemoveSpaces(text) ==
    IF text = <<>> THEN <<>>
    ELSE IF Head(text) = " " THEN RemoveSpaces(Tail(text))
    ELSE <<Head(text)>> \o RemoveSpaces(Tail(text))

\* The phone pattern as a position automaton: a set of positions (number of
\* characters consumed so far) is advanced through the pattern's pieces.
PhoneSeparators == {" ", "\t", "\n", "-"}

StepOptional(text, ps, chars) ==
    ps \cup {p + 1 : p \in {q \in ps : q < Len(text) /\ text[q + 1] \in chars}}

StepDigits(text, ps, n) ==
    {p + n : p \in {q \in ps : /\ q + n <= Len(text)
                               /\ \A k \in 1..n : text[q + k] \in Digits}}

\* ^(\+7|8)
PhonePrefix(text) ==
    (IF Len(text) >= 2 /\ text[1] = "+" /\ text[2] = "7" THEN {2} ELSE {})
    \cup (IF Len(text) >= 1 /\ text[1] = "8" THEN {1} ELSE {})

\* re.match(r'^(\+7|8)[\s\-]?\(?\d{3}\)?[\s\-]?\d{3}[\s\-]?\d{2}[\s\-]?\d{2}$', text)
PhoneMatches(text) ==
    LET p1 == StepOptional(text, PhonePrefix(text), PhoneSeparators)
        p2 == StepOptional(text, p1, {"("})
        p3 == StepDigits(text, p2, 3)
        p4 == StepOptional(text, p3, {")"})
        p5 == StepOptional(text, p4, PhoneSeparators)
        p6 == StepDigits(text, p5, 3)
        p7 == StepOptional(text, p6, PhoneSeparators)
        p8 == StepDigits(text, p7, 2)
        p9 == StepOptional(text, p8, PhoneSeparators)
        p10 == StepDigits(text, p9, 2)
    IN  p10 \cap MatchEnds(text) # {}

\* A validate() that does not look at the address
ClientValidateWithoutAddress(c) ==
    IF ~EmailMatches(c.email) THEN FALSE
    ELSE IF ~PhoneMatches(RemoveSpaces(c.phone)) THEN FALSE
    ELSE IF c.name = <<>> THEN FALSE
    ELSE TRUE

\* Client.validate
ClientValidate(c) ==
    IF ~EmailMatches(c.email) THEN FALSE
    ELSE IF ~PhoneMatches(RemoveSpaces(c.phone)) THEN FALSE
    ELSE IF c.name = <<>> \/ c.address = <<>> THEN FALSE
    ELSE TRUE

\* Product.validate; "self.price <= 0" is false of NaN, as every comparison
\* with NaN is
ProductValidate(p) ==
    IF p.name = <<>> \/ (p.price # NaN /\ p.price <= 0) THEN FALSE ELSE TRUE

\* A validate() that does not look at the items
OrderValidateClientOnly(o) ==
    IF o.client_id = None \/ o.client_id = 0 THEN FALSE ELSE TRUE

\* Order.validate: "not self.client_id" is true of None and of 0
OrderValidate(o) ==
    IF o.client_id = None \/ o.client_id = 0 \/ o.items = <<>> THEN FALSE
    ELSE TRUE

\* A line total that leaves the quantity out
PriceWithoutQuantity(item) == item.price

\* OrderItem.total_price
total_price(item) == item.quantity * item.price

\* sum(...) over a list, left to right from 0
RECURSIVE SumPrices(_)
SumPrices(items) ==
    IF items = <<>> THEN 0
    ELSE SumPrices(SubSeq(items, 1, Len(items) - 1))
         + total_price(items[Len(items)])

\* Order.total_amount
total_amount(o) == SumPrices(o.items)

\* OrderItem(product_id, quantity, price)
OrderItem(product_id, quantity, price) ==
    [product_id |-> product_id, quantity |-> quantity, price |-> price]

\* Order.add_item
add_item(o, product_id, quantity, price) ==
    [o EXCEPT !.items = Append(@, OrderItem(product_id, quantity, price))]

\* Order.remove_item
RECURSIVE WithoutProduct(_, _)
WithoutProduct(items, product_id) ==
    IF items = <<>> THEN <<>>
    ELSE IF Head(items).product_id # product_id
         THEN <<Head(items)>> \o WithoutProduct(Tail(items), product_id)
    ELSE WithoutProduct(Tail(items), product_id)

remove_item(o, product_id) ==
    [o EXCEPT !.items = WithoutProduct(@, product_id)]

(***************************************************************************)
(* Persistence gateway (db.py): the SQLite store                           *)
(***************************************************************************)
NoneIso == <<None>>

TableNames == {"clients", "products", "orders", "order_items"}

NoTables ==
    [schema |-> FALSE, clients |-> <<>>, products |-> <<>>, orders |-> <<>>,
     order_items |-> <<>>,
     sqlite_sequence |-> [t \in TableNames |-> 0],
     err |-> "none", lastrowid |-> None]

\* sqlite3.connect(self.db_name): a connection to the database file, or, for
\* the name ":memory:", to a new private database that holds no tables.
connect ==
    IF db_name = ":memory:" THEN NoTables
    ELSE [schema |-> TRUE, clients |-> clients, products |-> products,
          orders |-> orders, order_items |-> order_items,
          sqlite_sequence |-> sqlite_sequence,
          err |-> "none", lastrowid |-> None]

Raise(conn, error) == [conn EXCEPT !.err = error]

\* INTEGER PRIMARY KEY without AUTOINCREMENT: one more than the largest rowid
\* now in the table.
RowIdWithoutAutoincrement(conn, table) == SeqMax(Ids(conn[table])) + 1

\* INTEGER PRIMARY KEY AUTOINCREMENT: one more than the largest rowid the table
\* has ever held, which sqlite_sequence records.
NextRowId(conn, table) ==
    Max(SeqMax(Ids(conn[table])), conn.sqlite_sequence[table]) + 1

\* A successful INSERT: the row gets the next rowid and is appended.
InsertRow(conn, table, row) ==
    LET id == NextRowId(conn, table)
    IN  [conn EXCEPT ![table] = Append(@, [row EXCEPT !.id = id]),
                     !.sqlite_sequence[table] = id,
                     !.lastrowid = id]

\* INSERT INTO clients (name, email, phone, address, registration_date)
InsertClient(conn, name, email, phone, address, registration_date) ==
    IF conn.err # "none" THEN conn
    ELSE IF ~conn.schema THEN Raise(conn, "OperationalError")
    ELSE IF \/ name = NoneText \/ email = NoneText \/ phone = NoneText
            \/ address = NoneText \/ registration_date = NoneIso
         THEN Raise(conn, "IntegrityError")
    ELSE IF \E i \in 1..Len(conn.clients) : conn.clients[i].email = email
         THEN Raise(conn, "IntegrityError")
    ELSE InsertRow(conn, "clients",
                   [id |-> None, name |-> name, email |-> email, phone |-> phone,
                    address |-> address,
                    registration_date |-> registration_date])

\* INSERT INTO products (name, price, category, description); sqlite3 binds
\* a NaN as NULL.
InsertProduct(conn, name, price, category, description) ==
    IF conn.err # "none" THEN conn
    ELSE IF ~conn.schema THEN Raise(conn, "OperationalError")
    ELSE IF name = NoneText \/ price = None \/ price = NaN
            \/ category = NoneText
         THEN Raise(conn, "IntegrityError")
    ELSE InsertRow(conn, "products",
                   [id |-> None, name |-> name, price |-> price,
                    category |-> category, description |-> description])

\* INSERT INTO orders (client_id, order_date, status); foreign keys are not
\* enforced (no PRAGMA foreign_keys).
InsertOrder(conn, client_id, order_date, status) ==
    IF conn.err # "none" THEN conn
    ELSE IF ~conn.schema THEN Raise(conn, "OperationalError")
    ELSE IF client_id = None \/ order_date = NoneIso \/ status = NoneText
         THEN Raise(conn, "IntegrityError")
    ELSE InsertRow(conn, "orders",
                   [id |-> None, client_id |-> client_id,
                    order_date |-> order_date, status |-> status])

\* INSERT INTO order_items (order_id, product_id, quantity, price)
InsertOrderItem(conn, order_id, product_id, quantity, price) ==
    IF conn.err # "none" THEN conn
    ELSE IF ~conn.schema THEN Raise(conn, "OperationalError")
    ELSE IF product_id = None \/ quantity = None \/ price = None
         THEN Raise(conn, "IntegrityError")
    ELSE InsertRow(conn, "order_items",
                   [id |-> None, order_id |-> order_id, product_id |-> product_id,
                    quantity |-> quantity, price |-> price])

\* A DELETE that removes no row
DeleteNothing(conn, table) == conn

\* DELETE FROM <table>
DeleteFrom(conn, table) ==
    IF conn.err # "none" THEN conn
    ELSE IF ~conn.schema THEN Raise(conn, "OperationalError")
    ELSE [conn EXCEPT ![table] = <<>>]

\* add_order, "for item in order.items": the item rows, in list order
RECURSIVE InsertItems(_, _, _)
InsertItems(conn, order_id, items) ==
    IF items = <<>> THEN conn
    ELSE InsertItems(
             InsertOrderItem(conn, order_id, Head(items).product_id,
                             Head(items).quantity, Head(items).price),
             order_id, Tail(items))

\* The statements of add_client, add_product and add_order between connect
\* and commit.
AddClientTxn(conn, client) ==
    InsertClient(conn, client.name, client.email, client.phone, client.address,
                 isoformat(client.registration_date))

AddProductTxn(conn, product) ==
    InsertProduct(conn, product.name, product.price, product.category,
                  product.description)

AddOrderTxn(conn, o) ==
    LET c1 == InsertOrder(conn, o.client_id, isoformat(o.order_date), o.status)
        c2 == InsertItems(c1, c1.lastrowid, o.items)
    IN  [c2 EXCEPT !.lastrowid = c1.lastrowid]

\* "with sqlite3.connect(...) as conn" left without rolling back: what the
\* statements wrote stays, whether or not one of them raised.
StoreWithoutRollback(conn) ==
    IF db_name = ":memory:"
    THEN [clients |-> clients, products |-> products, orders |-> orders,
          order_items |-> order_items, sqlite_sequence |-> sqlite_sequence]
    ELSE [clients |-> conn.clients, products |-> conn.products,
          orders |-> conn.orders, order_items |-> conn.order_items,
          sqlite_sequence |-> conn.sqlite_sequence]

\* A connection whose writes are never committed
StoreNeverCommitted(conn) ==
    [clients |-> clients, products |-> products, orders |-> orders,
     order_items |-> order_items, sqlite_sequence |-> sqlite_sequence]

\* The database after "with sqlite3.connect(...) as conn: ... conn.commit()":
\* the connection's writes when no statement raised, the previous contents
\* (rollback) when one did. A private in-memory database is dropped with its
\* connection either way.
StoreAfter(conn) ==
    IF db_name # ":memory:" /\ conn.err = "none"
    THEN [clients |-> conn.clients, products |-> conn.products,
          orders |-> conn.orders, order_items |-> conn.order_items,
          sqlite_sequence |-> conn.sqlite_sequence]
    ELSE [clients |-> clients, products |-> products, orders |-> orders,
          order_items |-> order_items, sqlite_sequence |-> sqlite_sequence]

(***************************************************************************)
(* Reads: get_clients, get_products, get_orders, export_to_json            *)
(***************************************************************************)
Ok(value) == [outcome |-> "ok", value |-> value]

Failed(error) == [outcome |-> error, value |-> <<>>]

\* get_clients
get_clients(conn) ==
    IF ~conn.schema THEN Failed("OperationalError")
    ELSE Ok([i \in 1..Len(conn.clients) |->
               [id |-> conn.clients[i].id,
                name |-> conn.clients[i].name,
                email |-> conn.clients[i].email,
                phone |-> conn.clients[i].phone,
                address |-> conn.clients[i].address,
                registration_date |->
                    fromisoformat(conn.clients[i].registration_date)]])

\* get_products; "row[4] or ''" turns a NULL description into the empty text
get_products(conn) ==
    IF ~conn.schema THEN Failed("OperationalError")
    ELSE Ok([i \in 1..Len(conn.products) |->
               [id |-> conn.products[i].id,
                name |-> conn.products[i].name,
                price |-> conn.products[i].price,
                category |-> conn.products[i].category,
                description |->
                    IF conn.products[i].description = NoneText THEN <<>>
                    ELSE conn.products[i].description]])

\* The item query without its WHERE clause
RECURSIVE ItemsOfAnyOrder(_, _)
ItemsOfAnyOrder(rows, order_id) ==
    IF rows = <<>> THEN <<>>
    ELSE <<OrderItem(Head(rows).product_id, Head(rows).quantity,
                     Head(rows).price)>>
         \o ItemsOfAnyOrder(Tail(rows), order_id)

\* SELECT product_id, quantity, price FROM order_items WHERE order_id = ?
RECURSIVE ItemsOfOrder(_, _)
ItemsOfOrder(rows, order_id) ==
    IF rows = <<>> THEN <<>>
    ELSE IF Head(rows).order_id = order_id
         THEN <<OrderItem(Head(rows).product_id, Head(rows).quantity,
                          Head(rows).price)>>
              \o ItemsOfOrder(Tail(rows), order_id)
    ELSE ItemsOfOrder(Tail(rows), order_id)

\* get_orders: every order row with its items loaded
get_orders(conn) ==
    IF ~conn.schema THEN Failed("OperationalError")
    ELSE Ok([i \in 1..Len(conn.orders) |->
               [id |-> conn.orders[i].id,
                client_id |-> conn.orders[i].client_id,
                order_date |-> fromisoformat(conn.orders[i].order_date),
                status |-> conn.orders[i].status,
                items |-> ItemsOfOrder(conn.order_items, conn.orders[i].id)]])

\* Client.to_dict, Product.to_dict, OrderItem.to_dict, Order.to_dict
ClientToDict(c) ==
    [id |-> c.id, name |-> c.name, email |-> c.email, phone |-> c.phone,
     address |-> c.address, registration_date |-> isoformat(c.registration_date)]

ProductToDict(p) ==
    [id |-> p.id, name |-> p.name, price |-> p.price, category |-> p.category,
     description |-> p.description]

ItemToDict(item) ==
    [product_id |-> item.product_id, quantity |-> item.quantity,
     price |-> item.price]

\* An Order.to_dict that leaves the items out
OrderToDictWithoutItems(o) ==
    [id |-> o.id, client_id |-> o.client_id,
     order_date |-> isoformat(o.order_date), status |-> o.status,
     items |-> <<>>]

OrderToDict(o) ==
    [id |-> o.id, client_id |-> o.client_id,
     order_date |-> isoformat(o.order_date), status |-> o.status,
     items |-> [i \in 1..Len(o.items) |-> ItemToDict(o.items[i])]]

\* export_to_json: the document written to the file
export_to_json(conn) ==
    LET cs == get_clients(conn)
        ps == get_products(conn)
        os == get_orders(conn)
    IN  IF cs.outcome # "ok" THEN Failed(cs.outcome)
        ELSE Ok([clients |-> [i \in 1..Len(cs.value) |-> ClientToDict(cs.value[i])],
                 products |-> [i \in 1..Len(ps.value) |-> ProductToDict(ps.value[i])],
                 orders |-> [i \in 1..Len(os.value) |-> OrderToDict(os.value[i])]])

(***************************************************************************)
(* import_from_json                                                        *)
(***************************************************************************)
\* data.get(key, [])
GetOr(data, key, default) == IF key \in DOMAIN data THEN data[key] ELSE default

ImportClient(conn, d) ==
    IF conn.err # "none" THEN conn
    ELSE IF ~({"name", "email", "phone", "address", "registration_date"}
                \subseteq DOMAIN d)
         THEN Raise(conn, "KeyError")
    ELSE InsertClient(conn, d.name, d.email, d.phone, d.address,
                      d.registration_date)

ImportProduct(conn, d) ==
    IF conn.err # "none" THEN conn
    ELSE IF ~({"name", "price", "category"} \subseteq DOMAIN d)
         THEN Raise(conn, "KeyError")
    ELSE InsertProduct(conn, d.name, d.price, d.category,
                       GetOr(d, "description", <<>>))

ImportItem(conn, order_id, d) ==
    IF conn.err # "none" THEN conn
    ELSE IF ~({"product_id", "quantity", "price"} \subseteq DOMAIN d)
         THEN Raise(conn, "KeyError")
    ELSE InsertOrderItem(conn, order_id, d.product_id, d.quantity, d.price)

RECURSIVE ImportItems(_, _, _)
ImportItems(conn, order_id, ds) ==
    IF ds = <<>> THEN conn
    ELSE ImportItems(ImportItem(conn, order_id, Head(ds)), order_id, Tail(ds))

ImportOrder(conn, d) ==
    IF conn.err # "none" THEN conn
    ELSE IF ~({"client_id", "order_date", "status"} \subseteq DOMAIN d)
         THEN Raise(conn, "KeyError")
    ELSE LET c1 == InsertOrder(conn, d.client_id, d.order_date, d.status)
         IN  ImportItems(c1, c1.lastrowid, GetOr(d, "items", <<>>))

RECURSIVE ImportClients(_, _)
ImportClients(conn, ds) ==
    IF ds = <<>> THEN conn
    ELSE ImportClients(ImportClient(conn, Head(ds)), Tail(ds))

RECURSIVE ImportProducts(_, _)
ImportProducts(conn, ds) ==
    IF ds = <<>> THEN conn
    ELSE ImportProducts(ImportProduct(conn, Head(ds)), Tail(ds))

RECURSIVE ImportOrders(_, _)
ImportOrders(conn, ds) ==
    IF ds = <<>> THEN conn
    ELSE ImportOrders(ImportOrder(conn, Head(ds)), Tail(ds))

\* The statements of import_from_json between connect and commit
ImportTxn(conn, data) ==
    LET d1 == DeleteFrom(conn, "order_items")
        d2 == DeleteFrom(d1, "orders")
        d3 == DeleteFrom(d2, "products")
        d4 == DeleteFrom(d3, "clients")
        c1 == ImportClients(d4, GetOr(data, "clients", <<>>))
        c2 == ImportProducts(c1, GetOr(data, "products", <<>>))
    IN  ImportOrders(c2, GetOr(data, "orders", <<>>))

(***************************************************************************)
(* Inputs of the gateway calls                                             *)
(***************************************************************************)
EmailA == <<"a", "@", "b", ".", "r", "u">>
EmailC == <<"c", "@", "b", ".", "r", "u">>
BadEmail == <<"a", "@", "b">>
GoodPhone == <<"+", "7", "9", "1", "2", "3", "4", "5", "6", "7", "8", "9">>
BadPhone == <<"1", "2", "3">>

Day1 == [day |-> 1, us |-> 0]
Day2us == [day |-> 2, us |-> 5]

GoodClient(id, email) ==
    [id |-> id, name |-> <<"N">>, email |-> email, phone |-> GoodPhone,
     address |-> <<"M">>, registration_date |-> Day1]

ClientInputs ==
    {GoodClient(0, EmailA), GoodClient(9, EmailC),
     [GoodClient(1, EmailA) EXCEPT !.email = BadEmail],
     [GoodClient(1, EmailC) EXCEPT !.address = <<>>]}

GoodProduct(id, name, price) ==
    [id |-> id, name |-> name, price |-> price, category |-> <<"E">>,
     description |-> <<>>]

ProductInputs ==
    {GoodProduct(0, <<"T">>, 10), GoodProduct(9, <<"K">>, 5),
     GoodProduct(1, <<"T">>, 0)}

ItemA == OrderItem(1, 2, 10)
ItemB == OrderItem(2, 1, 5)
ItemNoProduct == OrderItem(None, 1, 5)

NewOrder(id, client_id, order_date, status, items) ==
    [id |-> id, client_id |-> client_id, order_date |-> order_date,
     status |-> status, items |-> items]

OrderInputs ==
    {NewOrder(0, 1, Day1, <<"n">>, <<ItemA>>),
     NewOrder(9, 2, Day2us, <<"d">>, <<ItemA, ItemB>>),
     NewOrder(0, 0, Day1, <<"n">>, <<ItemA>>),
     NewOrder(0, 1, Day1, <<"n">>, <<>>),
     NewOrder(0, 1, Day1, NoneText, <<ItemA>>),
     NewOrder(0, 1, Day1, <<"n">>, <<ItemB, ItemNoProduct>>)}

\* Documents handed to import_from_json besides the store's own export
DocClient(email) == ClientToDict(GoodClient(1, email))

DocOrder(client_id, items) ==
    OrderToDict(NewOrder(1, client_id, Day1, <<"n">>, items))

SampleDocuments ==
    {[clients |-> <<DocClient(EmailA)>>,
      products |-> <<ProductToDict(GoodProduct(1, <<"T">>, 10))>>,
      orders |-> <<DocOrder(1, <<ItemA>>)>>],
     [clients |-> <<DocClient(EmailA), DocClient(EmailA)>>],
     [clients |-> <<[name |-> <<"N">>, phone |-> GoodPhone]>>],
     [products |-> <<ProductToDict(GoodProduct(1, <<"T">>, 0))>>],
     [orders |-> <<[client_id |-> 5, order_date |-> isoformat(Day1),
                    status |-> <<"n">>]>>],
     [orders |-> <<DocOrder(1, <<ItemB, ItemNoProduct>>)>>]}

(***************************************************************************)
(* State machine of the gateway                                            *)
(***************************************************************************)
NoCall == [op |-> "none", arg |-> <<>>, outcome |-> "none", ret |-> None]

NoOrder == NewOrder(0, 1, Day1, <<"n">>, <<>>)

\* No filter_orders call, validate() call or DataAnalyzer call has been made
\* (filters is the empty **filters of a call without keyword arguments)
NoModelCall ==
    [filterInput |-> [orders |-> <<>>, filters |-> [k \in {} |-> 0]],
     filterResult |-> [outcome |-> "none", value |-> <<>>],
     candidate |-> [kind |-> "none", value |-> <<>>],
     validated |-> [done |-> FALSE, result |-> FALSE],
     report |-> [op |-> "none", arg |-> 0, outcome |-> "none", value |-> <<>>],
     order_items_tree |-> <<>>]

InitGateway ==
    /\ db_name \in {"database.db", ":memory:"}
    /\ clients = <<>>
    /\ products = <<>>
    /\ orders = <<>>
    /\ order_items = <<>>
    /\ sqlite_sequence = [t \in TableNames |-> 0]
    /\ last = NoCall
    /\ returned = [t \in TableNames |-> {}]

Init ==
    /\ InitGateway
    /\ order = NoOrder
    /\ sortInput = [orders |-> <<>>, key |-> "date", reverse |-> FALSE]
    /\ sortResult = [outcome |-> "none", value |-> <<>>]
    /\ filterInput = NoModelCall.filterInput
    /\ filterResult = NoModelCall.filterResult
    /\ candidate = NoModelCall.candidate
    /\ validated = NoModelCall.validated
    /\ report = NoModelCall.report
    /\ order_items_tree = NoModelCall.order_items_tree

\* The model's bound: the clients, products and orders inserted so far
WithinBounds(store) ==
    store.sqlite_sequence["clients"] + store.sqlite_sequence["products"]
        + store.sqlite_sequence["orders"] <= MaxInserts

SetStore(store) ==
    /\ clients' = store.clients
    /\ products' = store.products
    /\ orders' = store.orders
    /\ order_items' = store.order_items
    /\ sqlite_sequence' = store.sqlite_sequence

\* What a gateway call that ran the statements conn leaves behind: the store,
\* and the id it returns or the error it raises.
Finish(op, arg, table, conn) ==
    /\ WithinBounds(StoreAfter(conn))
    /\ SetStore(StoreAfter(conn))
    /\ last' = [op |-> op, arg |-> arg,
                outcome |-> IF conn.err = "none" THEN "ok" ELSE conn.err,
                ret |-> IF conn.err = "none" /\ table # "none"
                        THEN conn.lastrowid ELSE None]
    /\ returned' = IF conn.err = "none" /\ table # "none"
                   THEN [returned EXCEPT ![table] = @ \cup {conn.lastrowid}]
                   ELSE returned

\* A call that raised ValueError before it opened a connection
Reject(op, arg) ==
    /\ last' = [op |-> op, arg |-> arg, outcome |-> "ValueError", ret |-> None]
    /\ UNCHANGED <<tables, returned>>

\* Database.add_client
AddClient(client) ==
    /\ IF ~ClientValidate(client) THEN Reject("add_client", client)
       ELSE Finish("add_client", client, "clients", AddClientTxn(connect, client))
    /\ UNCHANGED <<db_name, order, sortInput, sortResult, modelVars>>

\* Database.add_product
AddProduct(product) ==
    /\ IF ~ProductValidate(product) THEN Reject("add_product", product)
       ELSE Finish("add_product", product, "products",
                   AddProductTxn(connect, product))
    /\ UNCHANGED <<db_name, order, sortInput, sortResult, modelVars>>

\* add_order without its validation
AddOrderUnvalidated(o) ==
    /\ Finish("add_order", o, "orders", AddOrderTxn(connect, o))
    /\ UNCHANGED <<db_name, order, sortInput, sortResult, modelVars>>

\* Database.add_order
AddOrder(o) ==
    /\ IF ~OrderValidate(o) THEN Reject("add_order", o)
       ELSE Finish("add_order", o, "orders", AddOrderTxn(connect, o))
    /\ UNCHANGED <<db_name, order, sortInput, sortResult, modelVars>>

\* Database.import_from_json
ImportFromJson(data) ==
    /\ Finish("import_from_json", data, "none", ImportTxn(connect, data))
    /\ UNCHANGED <<db_name, order, sortInput, sortResult, modelVars>>

\* The documents import_from_json is called with: the samples, and what
\* export_to_json wrote for the current store.
Documents ==
    SampleDocuments \cup
    (IF export_to_json(connect).outcome = "ok"
     THEN {export_to_json(connect).value} ELSE {})

Next ==
    \/ \E client \in ClientInputs : AddClient(client)
    \/ \E product \in ProductInputs : AddProduct(product)
    \/ \E o \in OrderInputs : AddOrder(o)
    \/ \E data \in Documents : ImportFromJson(data)

Spec == Init /\ [][Next]_vars

(***************************************************************************)
(* Order processor (models.py, DataProcessor.sort_orders)                  *)
(***************************************************************************)
SortKeys == {"date", "amount", "status"}

\* key_functions[key](a) < key_functions[key](b)
KeyLess(key, a, b) ==
    CASE key = "date" -> DateLess(a.order_date, b.order_date)
      [] key = "amount" -> total_amount(a) < total_amount(b)
      [] key = "status" -> TextLess(a.status, b.status)

RECURSIVE Reverse(_)
Reverse(xs) ==
    IF xs = <<>> THEN <<>> ELSE Append(Reverse(Tail(xs)), Head(xs))

\* x placed behind every element that is not greater than it
RECURSIVE InsertSorted(_, _, _)
InsertSorted(xs, x, key) ==
    IF xs = <<>> THEN <<x>>
    ELSE IF KeyLess(key, x, Head(xs)) THEN <<x>> \o xs
    ELSE <<Head(xs)>> \o InsertSorted(Tail(xs), x, key)

\* list.sort: a stable ascending sort
RECURSIVE StableSort(_, _)
StableSort(xs, key) ==
    IF xs = <<>> THEN <<>>
    ELSE InsertSorted(StableSort(SubSeq(xs, 1, Len(xs) - 1), key),
                      xs[Len(xs)], key)

\* A descending sort that sorts ascending and reverses the result
SortedThenReversed(xs, key, reverse) ==
    IF reverse THEN Reverse(StableSort(xs, key)) ELSE StableSort(xs, key)

\* sorted(xs, key=..., reverse=...): with reverse the list is reversed, sorted
\* ascending and reversed again, which keeps equal keys in their input order.
sorted(xs, key, reverse) ==
    IF reverse THEN Reverse(StableSort(Reverse(xs), key))
    ELSE StableSort(xs, key)

\* A call that works in place (list.sort(), del): the list passed in holds
\* the result afterwards
ArgumentReplaced(os, result) ==
    IF result.outcome = "ok" THEN result.value ELSE os

\* The list passed to sort_orders or filter_orders, after the call: sorted()
\* and the list comprehensions build new lists, "filtered = orders" binds a
\* second name, and the orders are only read, so the list and its orders are
\* as they were.
ArgumentAfter(os, result) == os

\* sort_orders without the check of the key
SortOrdersUnchecked(os, key, reverse) ==
    IF key \notin SortKeys THEN Ok(os) ELSE Ok(sorted(os, key, reverse))

\* DataProcessor.sort_orders
sort_orders(os, key, reverse) ==
    IF key \notin SortKeys THEN Failed("ValueError")
    ELSE Ok(sorted(os, key, reverse))

\* The orders the lists to sort are made of: equal dates, amounts and
\* statuses occur under different ids.
SortPool ==
    {NewOrder(1, 1, Day1, <<"n">>, <<ItemA>>),
     NewOrder(2, 1, Day2us, <<"N">>, <<ItemB>>),
     NewOrder(3, 2, Day1, <<"n", "d">>, <<ItemB, ItemB, ItemB, ItemB>>),
     NewOrder(4, 2, [day |-> 2, us |-> 0], <<"n">>, <<ItemB>>)}

InitSort ==
    /\ db_name = "database.db"
    /\ clients = <<>>
    /\ products = <<>>
    /\ orders = <<>>
    /\ order_items = <<>>
    /\ sqlite_sequence = [t \in TableNames |-> 0]
    /\ last = NoCall
    /\ returned = [t \in TableNames |-> {}]
    /\ order = NoOrder
    /\ sortInput \in [orders : UNION {[1..n -> SortPool] : n \in 0..MaxSortLen},
                      key : SortKeys \cup {"id"},
                      reverse : BOOLEAN]
    /\ sortResult = [outcome |-> "none", value |-> <<>>]
    /\ filterInput = NoModelCall.filterInput
    /\ filterResult = NoModelCall.filterResult
    /\ candidate = NoModelCall.candidate
    /\ validated = NoModelCall.validated
    /\ report = NoModelCall.report
    /\ order_items_tree = NoModelCall.order_items_tree

SortOrders ==
    /\ sortResult.outcome = "none"
    /\ sortResult' = sort_orders(sortInput.orders, sortInput.key, sortInput.reverse)
    /\ sortInput' = [sortInput EXCEPT !.orders = ArgumentAfter(@, sortResult')]
    /\ UNCHANGED <<db_name, tables, last, returned, order, modelVars>>

NextSort == SortOrders

SpecSort == InitSort /\ [][NextSort]_vars

(***************************************************************************)
(* Order processor (models.py, DataProcessor.filter_orders)                *)
(***************************************************************************)
MaxFilterLen == 3

\* A comparison of the statuses as they are written
LowerUnchanged(text) == text

\* str.lower()
lower(text) ==
    LET upper == <<"A", "B", "C", "D", "E", "F", "G", "H", "I", "J", "K", "L",
                   "M", "N", "O", "P", "Q", "R", "S", "T", "U", "V", "W", "X",
                   "Y", "Z">>
        small == <<"a", "b", "c", "d", "e", "f", "g", "h", "i", "j", "k", "l",
                   "m", "n", "o", "p", "q", "r", "s", "t", "u", "v", "w", "x",
                   "y", "z">>
        LowerChar(ch) ==
            IF \E k \in 1..Len(upper) : upper[k] = ch
            THEN small[CHOOSE k \in 1..Len(upper) : upper[k] = ch]
            ELSE ch
    IN  [i \in 1..Len(text) |-> LowerChar(text[i])]

\* Amount and date bounds that leave the bound itself out
KeepsStrictly(criterion, o, v) ==
    CASE criterion = "client_id" -> o.client_id = v
      [] criterion = "status" -> lower(o.status) = lower(v)
      [] criterion = "min_amount" -> total_amount(o) > v
      [] criterion = "max_amount" -> total_amount(o) < v
      [] criterion = "start_date" -> DateLess(v, o.order_date)
      [] criterion = "end_date" -> DateLess(o.order_date, v)

\* The condition of the list comprehension of one criterion
Keeps(criterion, o, v) ==
    CASE criterion = "client_id" -> o.client_id = v
      [] criterion = "status" -> lower(o.status) = lower(v)
      [] criterion = "min_amount" -> total_amount(o) >= v
      [] criterion = "max_amount" -> total_amount(o) <= v
      [] criterion = "start_date" -> ~DateLess(o.order_date, v)
      [] criterion = "end_date" -> ~DateLess(v, o.order_date)

\* if '<criterion>' in filters: filtered = [o for o in filtered if ...]
FilterStep(filtered, filters, criterion) ==
    IF criterion \in DOMAIN filters
    THEN SelectSeq(filtered, LAMBDA o : Keeps(criterion, o, filters[criterion]))
    ELSE filtered

\* DataProcessor.filter_orders
filter_orders(os, filters) ==
    LET f1 == FilterStep(os, filters, "client_id")
        f2 == FilterStep(f1, filters, "status")
        f3 == FilterStep(f2, filters, "min_amount")
        f4 == FilterStep(f3, filters, "max_amount")
        f5 == FilterStep(f4, filters, "start_date")
        f6 == FilterStep(f5, filters, "end_date")
    IN  Ok(f6)

\* The values a criterion is given
FilterValues(criterion) ==
    CASE criterion = "client_id" -> {1}
      [] criterion = "status" -> {<<"N">>}
      [] criterion = "min_amount" -> {5, 20}
      [] criterion = "max_amount" -> {5, 20}
      [] criterion = "start_date" -> {Day1, Day2us}
      [] criterion = "end_date" -> {Day1, Day2us}

\* The lists are made of the orders of SortPool; every criterion is left out
\* or given one of its values.
InitFilter ==
    /\ db_name = "database.db"
    /\ clients = <<>>
    /\ products = <<>>
    /\ orders = <<>>
    /\ order_items = <<>>
    /\ sqlite_sequence = [t \in TableNames |-> 0]
    /\ last = NoCall
    /\ returned = [t \in TableNames |-> {}]
    /\ order = NoOrder
    /\ sortInput = [orders |-> <<>>, key |-> "date", reverse |-> FALSE]
    /\ sortResult = [outcome |-> "none", value |-> <<>>]
    /\ LET Criterion(criterion) ==
               {NoModelCall.filterInput.filters}
               \cup {[k \in {criterion} |-> v] : v \in FilterValues(criterion)}
       IN  \E os \in UNION {[1..n -> SortPool] : n \in 0..MaxFilterLen},
              c \in Criterion("client_id"), st \in Criterion("status"),
              mn \in Criterion("min_amount"), mx \in Criterion("max_amount"),
              sd \in Criterion("start_date"), ed \in Criterion("end_date") :
              filterInput = [orders |-> os,
                             filters |-> c @@ st @@ mn @@ mx @@ sd @@ ed]
    /\ filterResult = NoModelCall.filterResult
    /\ candidate = NoModelCall.candidate
    /\ validated = NoModelCall.validated
    /\ report = NoModelCall.report
    /\ order_items_tree = NoModelCall.order_items_tree

FilterOrders ==
    /\ filterResult.outcome = "none"
    /\ filterResult' = filter_orders(filterInput.orders, filterInput.filters)
    /\ filterInput' = [filterInput EXCEPT !.orders =
                           ArgumentAfter(@, filterResult')]
    /\ UNCHANGED <<db_name, tables, last, returned, order, sortInput, sortResult,
                   candidate, validated, report, order_items_tree>>

SpecFilter == InitFilter /\ [][FilterOrders]_vars

\* Both operations of DataProcessor, each called once
SpecProcessor == (InitSort \/ InitFilter) /\ [][SortOrders \/ FilterOrders]_vars

(***************************************************************************)
(* validate() of a Client, a Product and an Order (models.py)              *)
(***************************************************************************)
\* init_db on a database file: the four tables, empty
NewDatabase == [NoTables EXCEPT !.schema = TRUE]

\* The objects validate() is called on.  Emails: valid, no domain suffix,
\* one-letter suffix, no local part, a blank, a final line feed.  Phones:
\* "+79123456789", "123", "+7 (123) 456-78-90", "8 912 345 67 89",
\* "+7912345678", "79123456789", "+7--9123456789", "+7(9123456789".
Candidates ==
    LET emails ==
            {EmailA, BadEmail,
             <<"a", "@", "b", ".", "r">>,
             <<"@", "b", ".", "r", "u">>,
             <<"a", " ", "@", "b", ".", "r", "u">>,
             EmailA \o <<"\n">>}
        phones ==
            {GoodPhone, BadPhone,
             <<"+", "7", " ", "(", "1", "2", "3", ")", " ", "4", "5", "6", "-",
               "7", "8", "-", "9", "0">>,
             <<"8", " ", "9", "1", "2", " ", "3", "4", "5", " ", "6", "7", " ",
               "8", "9">>,
             <<"+", "7", "9", "1", "2", "3", "4", "5", "6", "7", "8">>,
             <<"7", "9", "1", "2", "3", "4", "5", "6", "7", "8", "9">>,
             <<"+", "7", "-", "-", "9", "1", "2", "3", "4", "5", "6", "7", "8",
               "9">>,
             <<"+", "7", "(", "9", "1", "2", "3", "4", "5", "6", "7", "8",
               "9">>}
    IN  {[kind |-> "client",
          value |-> [id |-> 1, name |-> name, email |-> email, phone |-> phone,
                     address |-> address, registration_date |-> Day1]] :
            name \in {<<"N">>, <<>>}, email \in emails, phone \in phones,
            address \in {<<"M">>, <<>>}}
        \cup {[kind |-> "product", value |-> GoodProduct(1, name, price)] :
                name \in {<<"T">>, <<>>}, price \in {0 - 100, 0, 1, 10, NaN}}
        \cup {[kind |-> "order",
               value |-> NewOrder(1, client_id, order_date, status, items)] :
                client_id \in {None, 0, 1, 5}, order_date \in {Day1, Day2us},
                status \in {<<"n">>, <<>>},
                items \in {<<>>, <<ItemA>>, <<OrderItem(1, 0, 0)>>,
                           <<ItemA, ItemB>>}}

\* The object is validated next to a store that is empty or holds client 1
InitValidate ==
    /\ db_name = "database.db"
    /\ \E conn \in {NewDatabase,
                    AddClientTxn(NewDatabase, GoodClient(0, EmailA))} :
          /\ clients = conn.clients
          /\ sqlite_sequence = conn.sqlite_sequence
    /\ products = <<>>
    /\ orders = <<>>
    /\ order_items = <<>>
    /\ last = NoCall
    /\ returned = [t \in TableNames |-> {}]
    /\ order = NoOrder
    /\ sortInput = [orders |-> <<>>, key |-> "date", reverse |-> FALSE]
    /\ sortResult = [outcome |-> "none", value |-> <<>>]
    /\ filterInput = NoModelCall.filterInput
    /\ filterResult = NoModelCall.filterResult
    /\ candidate \in Candidates
    /\ validated = NoModelCall.validated
    /\ report = NoModelCall.report
    /\ order_items_tree = NoModelCall.order_items_tree

\* validate() of the object's class; it reads the object's fields and nothing
\* else
Validate ==
    /\ ~validated.done
    /\ validated' =
           [done |-> TRUE,
            result |-> CASE candidate.kind = "client" ->
                                ClientValidate(candidate.value)
                         [] candidate.kind = "product" ->
                                ProductValidate(candidate.value)
                         [] candidate.kind = "order" ->
                                OrderValidate(candidate.value)]
    /\ UNCHANGED <<db_name, tables, last, returned, order, sortInput, sortResult,
                   filterInput, filterResult, candidate, report,
                   order_items_tree>>

SpecValidate == InitValidate /\ [][Validate]_vars

(***************************************************************************)
(* Analyzer (analysis.py, DataAnalyzer)                                    *)
(***************************************************************************)
MaxReportOrders == 4

\* xs[:limit]
Slice(xs, limit) ==
    IF limit >= Len(xs) THEN xs
    ELSE IF limit >= 0 THEN SubSeq(xs, 1, limit)
    ELSE SubSeq(xs, 1, Max(0, Len(xs) + limit))

\* client_orders: the pairs (client_id, number of orders), in the order in
\* which the client ids are first met in the list of orders
RECURSIVE CountOrders(_)
CountOrders(os) ==
    IF os = <<>> THEN <<>>
    ELSE LET counted == CountOrders(SubSeq(os, 1, Len(os) - 1))
             client_id == os[Len(os)].client_id
         IN  IF \E i \in 1..Len(counted) : counted[i][1] = client_id
             THEN [i \in 1..Len(counted) |->
                      IF counted[i][1] = client_id
                      THEN <<client_id, counted[i][2] + 1>> ELSE counted[i]]
             ELSE Append(counted, <<client_id, 1>>)

\* A descending sort that puts a pair in front of the pairs of equal count
RECURSIVE InsertBeforeEqualCount(_, _)
InsertBeforeEqualCount(xs, x) ==
    IF xs = <<>> THEN <<x>>
    ELSE IF x[2] >= Head(xs)[2] THEN <<x>> \o xs
    ELSE <<Head(xs)>> \o InsertBeforeEqualCount(Tail(xs), x)

\* sorted(items, key=lambda x: x[1], reverse=True): a pair goes behind every
\* pair whose count is not smaller than its own
RECURSIVE InsertByCount(_, _)
InsertByCount(xs, x) ==
    IF xs = <<>> THEN <<x>>
    ELSE IF x[2] > Head(xs)[2] THEN <<x>> \o xs
    ELSE <<Head(xs)>> \o InsertByCount(Tail(xs), x)

RECURSIVE SortedByCount(_)
SortedByCount(xs) ==
    IF xs = <<>> THEN <<>>
    ELSE InsertByCount(SortedByCount(SubSeq(xs, 1, Len(xs) - 1)), xs[Len(xs)])

\* sum(o.total_amount for o in os)
RECURSIVE SumTotalAmount(_)
SumTotalAmount(os) ==
    IF os = <<>> THEN 0
    ELSE SumTotalAmount(SubSeq(os, 1, Len(os) - 1)) + total_amount(os[Len(os)])

\* The loop over the pairs: next(c for c in clients if c.id == client_id),
\* and an entry only "if client"
RECURSIVE TopEntries(_, _, _)
TopEntries(pairs, cs, os) ==
    IF pairs = <<>> THEN <<>>
    ELSE LET client_id == Head(pairs)[1]
             found == {i \in 1..Len(cs) : cs[i].id = client_id}
             rest == TopEntries(Tail(pairs), cs, os)
         IN  IF found = {} THEN rest
             ELSE <<[client |-> cs[CHOOSE i \in found : \A j \in found : i <= j],
                     order_count |-> Head(pairs)[2],
                     total_spent |->
                         SumTotalAmount(
                             SelectSeq(os, LAMBDA o : o.client_id = client_id))]>>
                  \o rest

\* DataAnalyzer.get_top_clients_by_orders
get_top_clients_by_orders(conn, limit) ==
    LET os == get_orders(conn)
        cs == get_clients(conn)
    IN  IF os.outcome # "ok" THEN Failed(os.outcome)
        ELSE Ok(TopEntries(Slice(SortedByCount(CountOrders(os.value)), limit),
                           cs.value, os.value))

\* The average computed without looking at the number of orders
AverageUnguarded(total_revenue, total_orders) ==
    IF total_orders = 0 THEN Failed("ZeroDivisionError")
    ELSE Ok([num |-> total_revenue, den |-> total_orders])

\* total_revenue / total_orders if total_orders > 0 else 0: the quotient is
\* kept as numerator and denominator; a division by 0 is a fault
Average(total_revenue, total_orders) ==
    IF total_orders > 0
    THEN IF total_orders = 0 THEN Failed("ZeroDivisionError")
         ELSE Ok([num |-> total_revenue, den |-> total_orders])
    ELSE Ok([num |-> 0, den |-> 1])

\* DataAnalyzer.get_sales_statistics
get_sales_statistics(conn) ==
    LET os == get_orders(conn)
        cs == get_clients(conn)
        ps == get_products(conn)
        total_orders == Len(os.value)
        total_revenue == SumTotalAmount(os.value)
        avg_order_value == Average(total_revenue, total_orders)
    IN  IF os.outcome # "ok" THEN Failed(os.outcome)
        ELSE IF avg_order_value.outcome # "ok"
             THEN Failed(avg_order_value.outcome)
        ELSE Ok([total_orders |-> total_orders,
                 total_revenue |-> total_revenue,
                 avg_order_value |-> avg_order_value.value,
                 total_clients |-> Len(cs.value),
                 total_products |-> Len(ps.value)])

\* client_products: the pairs (client_id, set of the product ids of the
\* client's items), in the order in which the client ids are first met; an
\* order without items adds nothing.
RECURSIVE ClientProducts(_)
ClientProducts(os) ==
    IF os = <<>> THEN <<>>
    ELSE LET collected == ClientProducts(SubSeq(os, 1, Len(os) - 1))
             o == os[Len(os)]
             ids == {o.items[i].product_id : i \in 1..Len(o.items)}
         IN  IF o.items = <<>> THEN collected
             ELSE IF \E i \in 1..Len(collected) : collected[i][1] = o.client_id
             THEN [i \in 1..Len(collected) |->
                      IF collected[i][1] = o.client_id
                      THEN <<o.client_id, collected[i][2] \cup ids>>
                      ELSE collected[i]]
             ELSE Append(collected, <<o.client_id, ids>>)

\* Every edge given the weight 1
EdgeWeightOne(common_products) == 1

\* weight = len(common_products)
EdgeWeight(common_products) == Cardinality(common_products)

\* The double loop over client_ids: an edge for every pair i < j whose
\* product sets have a common element
NetworkEdges(client_products) ==
    {[ends |-> {client_products[p[1]][1], client_products[p[2]][1]},
      weight |-> EdgeWeight(client_products[p[1]][2]
                            \cap client_products[p[2]][2])] :
        p \in {q \in (1..Len(client_products)) \X (1..Len(client_products)) :
                  /\ q[1] < q[2]
                  /\ client_products[q[1]][2] \cap client_products[q[2]][2]
                         # {}}}

\* DataAnalyzer.create_clients_network.  The nodes: one per stored client,
\* labelled with its name, and one without attributes for every other id that
\* add_edge was given.
create_clients_network(conn) ==
    LET os == get_orders(conn)
        cs == get_clients(conn).value
        edges == NetworkEdges(ClientProducts(os.value))
        nodes ==
            {[id |-> cs[i].id, label |-> cs[i].name, type |-> <<"client">>] :
                i \in 1..Len(cs)}
            \cup {[id |-> id, label |-> NoneText, type |-> NoneText] :
                    id \in (UNION {e.ends : e \in edges})
                           \ {cs[i].id : i \in 1..Len(cs)}}
    IN  IF os.outcome # "ok" THEN Failed(os.outcome)
        ELSE Ok([nodes |-> nodes, edges |-> edges])

\* for order in orders: for item in order.items: the items in loop order
RECURSIVE ItemsOfOrders(_)
ItemsOfOrders(os) ==
    IF os = <<>> THEN <<>> ELSE Head(os).items \o ItemsOfOrders(Tail(os))

\* product_sales: the pairs (product_id, summed quantity), in the order in
\* which the product ids are first met
RECURSIVE ProductSales(_)
ProductSales(items) ==
    IF items = <<>> THEN <<>>
    ELSE LET counted == ProductSales(SubSeq(items, 1, Len(items) - 1))
             item == items[Len(items)]
         IN  IF \E i \in 1..Len(counted) : counted[i][1] = item.product_id
             THEN [i \in 1..Len(counted) |->
                      IF counted[i][1] = item.product_id
                      THEN <<item.product_id, counted[i][2] + item.quantity>>
                      ELSE counted[i]]
             ELSE Append(counted, <<item.product_id, item.quantity>>)

\* The loop over top_products: next(p for p in products if p.id ==
\* product_id), and a bar (name, count) only "if product"
RECURSIVE ProductBars(_, _)
ProductBars(pairs, ps) ==
    IF pairs = <<>> THEN <<>>
    ELSE LET found == {i \in 1..Len(ps) : ps[i].id = Head(pairs)[1]}
             rest == ProductBars(Tail(pairs), ps)
         IN  IF found = {} THEN rest
             ELSE <<[name |-> ps[CHOOSE i \in found : \A j \in found : i <= j].name,
                     count |-> Head(pairs)[2]]>> \o rest

\* DataAnalyzer.plot_top_products, up to the bars handed to plt.barh:
\* product_names and sales_counts, bar by bar
plot_top_products(conn, limit) ==
    LET os == get_orders(conn)
        ps == get_products(conn)
        top_products ==
            Slice(SortedByCount(ProductSales(ItemsOfOrders(os.value))), limit)
    IN  IF os.outcome # "ok" THEN Failed(os.outcome)
        ELSE Ok(ProductBars(top_products, ps.value))

\* The placeholder of the order listing (the Russian word for "unknown")
UnknownClientName == <<"Unknown">>

\* client.name read without the test of client
ClientNameUnguarded(cs, client_id) ==
    LET found == {i \in 1..Len(cs) : cs[i].id = client_id}
    IN  IF found = {} THEN Failed("AttributeError")
        ELSE Ok(cs[CHOOSE i \in found : \A j \in found : i <= j].name)

\* client = next((c for c in clients if c.id == order.client_id), None);
\* client_name = client.name if client else <placeholder>
ClientName(cs, client_id) ==
    LET found == {i \in 1..Len(cs) : cs[i].id = client_id}
    IN  IF found = {} THEN Ok(UnknownClientName)
        ELSE Ok(cs[CHOOSE i \in found : \A j \in found : i <= j].name)

\* OrderManagementApp.load_orders: the rows put into orders_tree, one per
\* order; strftime('%Y-%m-%d') keeps the day of the date
load_orders(conn) ==
    LET os == get_orders(conn)
        cs == get_clients(conn)
        names == [i \in 1..Len(os.value) |->
                     ClientName(cs.value, os.value[i].client_id)]
    IN  IF os.outcome # "ok" THEN Failed(os.outcome)
        ELSE IF \E i \in 1..Len(names) : names[i].outcome # "ok"
             THEN Failed(names[CHOOSE i \in 1..Len(names) :
                                   names[i].outcome # "ok"].outcome)
        ELSE Ok([i \in 1..Len(os.value) |->
                    [id |-> os.value[i].id,
                     client_name |-> names[i].value,
                     order_date |-> <<os.value[i].order_date.day>>,
                     status |-> os.value[i].status,
                     total_amount |-> total_amount(os.value[i])]])

\* for order in orders: self.db.add_order(order)
RECURSIVE AddOrders(_, _)
AddOrders(conn, os) ==
    IF os = <<>> THEN conn
    ELSE AddOrders(AddOrderTxn(conn, Head(os)), Tail(os))

\* The stores the reports are asked of, written by add_client, add_product and
\* add_order: two or three clients, no or two products, and up to
\* MaxReportOrders orders of clients 1, 2 and 3.
InitAnalysis ==
    /\ db_name = "database.db"
    /\ LET two == AddClientTxn(AddClientTxn(NewDatabase, GoodClient(0, EmailA)),
                               GoodClient(0, EmailC))
           three == AddClientTxn(
                        two, GoodClient(0, <<"d", "@", "b", ".", "r", "u">>))
           WithProducts(conn) ==
               AddProductTxn(AddProductTxn(conn, GoodProduct(0, <<"T">>, 10)),
                             GoodProduct(0, <<"K">>, 5))
           placed == {NewOrder(0, client_id, Day1, <<"n">>, items) :
                         client_id \in {1, 2, 3}, items \in {<<ItemA>>, <<ItemB>>}}
       IN  \E base \in {two, three, WithProducts(two), WithProducts(three)},
              os \in UNION {[1..k -> placed] : k \in 0..MaxReportOrders} :
              LET conn == AddOrders(base, os)
              IN  /\ clients = conn.clients
                  /\ products = conn.products
                  /\ orders = conn.orders
                  /\ order_items = conn.order_items
                  /\ sqlite_sequence = conn.sqlite_sequence
    /\ last = NoCall
    /\ returned = [t \in TableNames |-> {}]
    /\ order = NoOrder
    /\ sortInput = [orders |-> <<>>, key |-> "date", reverse |-> FALSE]
    /\ sortResult = [outcome |-> "none", value |-> <<>>]
    /\ filterInput = NoModelCall.filterInput
    /\ filterResult = NoModelCall.filterResult
    /\ candidate = NoModelCall.candidate
    /\ validated = NoModelCall.validated
    /\ report = NoModelCall.report
    /\ order_items_tree = NoModelCall.order_items_tree

\* A method of DataAnalyzer returns result; the analyzer only reads the store
Report(op, arg, result) ==
    /\ report.op = "none"
    /\ report' = [op |-> op, arg |-> arg, outcome |-> result.outcome,
                  value |-> result.value]
    /\ UNCHANGED <<db_name, tables, last, returned, order, sortInput, sortResult,
                   filterInput, filterResult, candidate, validated,
                   order_items_tree>>

GetTopClientsByOrders(limit) ==
    Report("get_top_clients_by_orders", limit,
           get_top_clients_by_orders(connect, limit))

GetSalesStatistics ==
    Report("get_sales_statistics", 0, get_sales_statistics(connect))

CreateClientsNetwork ==
    Report("create_clients_network", 0, create_clients_network(connect))

PlotTopProducts(limit) ==
    Report("plot_top_products", limit, plot_top_products(connect, limit))

LoadOrders == Report("load_orders", 0, load_orders(connect))

NextAnalysis ==
    \/ \E limit \in {1, 2, 5} : GetTopClientsByOrders(limit)
    \/ GetSalesStatistics
    \/ CreateClientsNetwork
    \/ \E limit \in {1, 2, 5} : PlotTopProducts(limit)
    \/ LoadOrders

SpecAnalysis == InitAnalysis /\ [][NextAnalysis]_vars

(***************************************************************************)
(* Export of the store and import of the document into a copy (db.py)      *)
(***************************************************************************)
\* db.export_to_json(filename): the document is written to the file
ExportToJson == Report("export_to_json", 0, export_to_json(connect))

\* copy = Database("copy.db"); copy.import_from_json(filename): the document
\* is imported into a second database file, which init_db has just created.
\* report.value is then the copy: what the transaction wrote when no
\* statement raised, the empty tables (rollback) when one did.
ImportIntoCopy ==
    /\ report.op = "export_to_json"
    /\ report.outcome = "ok"
    /\ LET conn == ImportTxn(NewDatabase, report.value)
       IN  report' = [op |-> "import_from_json", arg |-> report.value,
                      outcome |-> IF conn.err = "none" THEN "ok" ELSE conn.err,
                      value |-> IF conn.err = "none" THEN conn ELSE NewDatabase]
    /\ UNCHANGED <<db_name, tables, last, returned, order, sortInput, sortResult,
                   filterInput, filterResult, candidate, validated,
                   order_items_tree>>

\* A session of gateway calls that ends with an export and the import of the
\* exported document into a copy
SpecExchange ==
    Init /\ [][(report.op = "none" /\ Next) \/ ExportToJson \/ ImportIntoCopy]_vars

(***************************************************************************)
(* Order form (gui.py, OrderManagementApp.add_order_item, create_order)    *)
(***************************************************************************)
MaxStaged == 2
MaxFormOrders == 1

\* f"{id}: {name}", the text of a combobox entry (ids below 10)
ChoiceText(id, name) ==
    <<(<<"0", "1", "2", "3", "4", "5", "6", "7", "8", "9">>)[id + 1], ":", " ">>
    \o name

\* int(text.split(':')[0]): the decimal number written before the first ':',
\* ValueError when that part is not made of digits
IntBeforeColon(text) ==
    LET colons == {i \in 1..Len(text) : text[i] = ":"}
        n == IF colons = {} THEN Len(text)
             ELSE (CHOOSE i \in colons : \A j \in colons : i <= j) - 1
        DigitValue(ch) ==
            CHOOSE d \in 0..9 :
                (<<"0", "1", "2", "3", "4", "5", "6", "7", "8", "9">>)[d + 1] = ch
        RECURSIVE Value(_)
        Value(k) == IF k = 0 THEN 0 ELSE 10 * Value(k - 1) + DigitValue(text[k])
    IN  IF n = 0 \/ \E i \in 1..n : text[i] \notin Digits
        THEN Failed("ValueError")
        ELSE Ok(Value(n))

\* The first product of ps with the name: next((p for p in products if p.name
\* == product_name), None), as the set of its places (empty for None)
FirstNamed(ps, name) ==
    LET found == {i \in 1..Len(ps) : ps[i].name = name}
    IN  {i \in found : \A j \in found : i <= j}

\* OrderManagementApp.add_order_item: the staged lines afterwards and the
\* message shown ("ok" when none).  A line holds the four values of the tree
\* row; "selected", the product id the user chose, is kept for the properties
\* only and no operation reads it.
add_order_item(conn, tree, product_str, quantity_text) ==
    LET product_id == IntBeforeColon(product_str)
        quantity == IntBeforeColon(quantity_text)
        ps == get_products(conn)
        found == {i \in 1..Len(ps.value) : ps.value[i].id = product_id.value}
        product == ps.value[CHOOSE i \in found : \A j \in found : i <= j]
    IN  IF product_str = <<>>
        THEN [tree |-> tree, message |-> "select a product"]
        ELSE IF product_id.outcome # "ok" \/ quantity.outcome # "ok"
        THEN [tree |-> tree, message |-> "ValueError"]
        ELSE IF ps.outcome # "ok"
        THEN [tree |-> tree, message |-> ps.outcome]
        ELSE IF found = {}
        THEN [tree |-> tree, message |-> "product not found"]
        ELSE [tree |-> Append(tree, [name |-> product.name,
                                      quantity |-> quantity.value,
                                      price |-> product.price,
                                      total |-> quantity.value * product.price,
                                      selected |-> product_id.value]),
              message |-> "ok"]

\* The loop of create_order over the staged lines: an item for every line
\* whose product is found
RECURSIVE ItemsOfTree(_, _)
ItemsOfTree(tree, ps) ==
    IF tree = <<>> THEN <<>>
    ELSE LET found == FirstNamed(ps, Head(tree).name)
             rest == ItemsOfTree(Tail(tree), ps)
         IN  IF found = {} THEN rest
             ELSE <<OrderItem(ps[CHOOSE i \in found : TRUE].id,
                              Head(tree).quantity, Head(tree).price)>> \o rest

\* OrderManagementApp.create_order: the connection of add_order (conn itself
\* when add_order is not reached), the staged lines afterwards and the
\* message shown ("ok" for the success message)
create_order(conn, tree, client_str, status) ==
    LET client_id == IntBeforeColon(client_str)
        ps == get_products(conn)
        o == NewOrder(0, client_id.value, Day1, status,
                      ItemsOfTree(tree, ps.value))
        written == AddOrderTxn(conn, o)
    IN  IF client_str = <<>>
        THEN [conn |-> conn, tree |-> tree, message |-> "select a client"]
        ELSE IF client_id.outcome # "ok"
        THEN [conn |-> conn, tree |-> tree, message |-> "ValueError"]
        ELSE IF tree # <<>> /\ ps.outcome # "ok"
        THEN [conn |-> conn, tree |-> tree, message |-> ps.outcome]
        ELSE IF o.items = <<>>
        THEN [conn |-> conn, tree |-> tree, message |-> "add an item"]
        ELSE IF ~OrderValidate(o)
        THEN [conn |-> conn, tree |-> tree, message |-> "ValueError"]
        ELSE IF written.err # "none"
        THEN [conn |-> written, tree |-> tree, message |-> written.err]
        ELSE [conn |-> written, tree |-> <<>>, message |-> "ok"]

\* The form is opened on a store that add_client and add_product have filled:
\* one client, and the products T, K and, in one of the two stores, a second
\* product named T with another price.
InitForm ==
    /\ db_name = "database.db"
    /\ LET base == AddProductTxn(
                       AddProductTxn(
                           AddClientTxn(NewDatabase, GoodClient(0, EmailA)),
                           GoodProduct(0, <<"T">>, 10)),
                       GoodProduct(0, <<"K">>, 5))
       IN  \E conn \in {base, AddProductTxn(base, GoodProduct(0, <<"T">>, 7))} :
              /\ clients = conn.clients
              /\ products = conn.products
              /\ sqlite_sequence = conn.sqlite_sequence
    /\ orders = <<>>
    /\ order_items = <<>>
    /\ last = NoCall
    /\ returned = [t \in TableNames |-> {}]
    /\ order = NoOrder
    /\ sortInput = [orders |-> <<>>, key |-> "date", reverse |-> FALSE]
    /\ sortResult = [outcome |-> "none", value |-> <<>>]
    /\ filterInput = NoModelCall.filterInput
    /\ filterResult = NoModelCall.filterResult
    /\ candidate = NoModelCall.candidate
    /\ validated = NoModelCall.validated
    /\ report = NoModelCall.report
    /\ order_items_tree = NoModelCall.order_items_tree

\* The button "add item" with the texts of the product box and of the
\* quantity field
AddOrderItem(product_str, quantity_text) ==
    LET done == add_order_item(connect, order_items_tree, product_str,
                               quantity_text)
    IN  /\ Len(order_items_tree) < MaxStaged
        /\ order_items_tree' = done.tree
        /\ last' = [op |-> "add_order_item",
                    arg |-> <<product_str, quantity_text>>,
                    outcome |-> done.message, ret |-> None]
        /\ UNCHANGED <<db_name, tables, returned, order, sortInput, sortResult,
                       filterInput, filterResult, candidate, validated, report>>

\* The button "create order" with the text of the client box; last.arg keeps
\* the lines that were staged when it was pressed
CreateOrder(client_str) ==
    LET done == create_order(connect, order_items_tree, client_str, <<"n">>)
    IN  /\ Len(orders) < MaxFormOrders
        /\ SetStore(StoreAfter(done.conn))
        /\ order_items_tree' = done.tree
        /\ last' = [op |-> "create_order",
                    arg |-> [client |-> client_str, lines |-> order_items_tree],
                    outcome |-> done.message,
                    ret |-> IF done.message = "ok" THEN done.conn.lastrowid
                            ELSE None]
        /\ returned' = IF done.message = "ok"
                       THEN [returned EXCEPT !["orders"] =
                                 @ \cup {done.conn.lastrowid}]
                       ELSE returned
        /\ UNCHANGED <<db_name, order, sortInput, sortResult,
                       filterInput, filterResult, candidate, validated, report>>

\* What the user can put into the boxes: nothing, an entry of the list
\* load_data filled, or a typed text
NextForm ==
    \/ \E product_str \in
              {<<>>, <<"9", ":", " ", "Z">>}
              \cup {ChoiceText(products[i].id, products[i].name) :
                       i \in 1..Len(products)},
          quantity_text \in {<<"1">>, <<"2">>, <<"x">>} :
          AddOrderItem(product_str, quantity_text)
    \/ \E client_str \in
              {<<>>, <<"0", ":", " ", "Z">>}
              \cup {ChoiceText(clients[i].id, clients[i].name) :
                       i \in 1..Len(clients)} :
          CreateOrder(client_str)

SpecForm == InitForm /\ [][NextForm]_vars

(***************************************************************************)
(* An Order object and its mutation operations (models.py, Order)          *)
(***************************************************************************)
ItemProductIds == {1, 2}
ItemQuantities == {1, 2}
ItemPrices == {5, 10}

InitOrder ==
    /\ db_name = "database.db"
    /\ clients = <<>>
    /\ products = <<>>
    /\ orders = <<>>
    /\ order_items = <<>>
    /\ sqlite_sequence = [t \in TableNames |-> 0]
    /\ last = NoCall
    /\ returned = [t \in TableNames |-> {}]
    /\ order = NoOrder
    /\ sortInput = [orders |-> <<>>, key |-> "date", reverse |-> FALSE]
    /\ sortResult = [outcome |-> "none", value |-> <<>>]
    /\ filterInput = NoModelCall.filterInput
    /\ filterResult = NoModelCall.filterResult
    /\ candidate = NoModelCall.candidate
    /\ validated = NoModelCall.validated
    /\ report = NoModelCall.report
    /\ order_items_tree = NoModelCall.order_items_tree

OrderAddItem(product_id, quantity, price) ==
    /\ Len(order.items) < MaxOrderLen
    /\ order' = add_item(order, product_id, quantity, price)
    /\ last' = [op |-> "add_item", arg |-> OrderItem(product_id, quantity, price),
                outcome |-> "ok", ret |-> None]
    /\ UNCHANGED <<db_name, tables, returned, sortInput, sortResult, modelVars>>

OrderRemoveItem(product_id) ==
    /\ order' = remove_item(order, product_id)
    /\ last' = [op |-> "remove_item", arg |-> product_id,
                outcome |-> "ok", ret |-> None]
    /\ UNCHANGED <<db_name, tables, returned, sortInput, sortResult, modelVars>>

NextOrder ==
    \/ \E product_id \in ItemProductIds, quantity \in ItemQuantities,
          price \in ItemPrices : OrderAddItem(product_id, quantity, price)
    \/ \E product_id \in ItemProductIds : OrderRemoveItem(product_id)

SpecOrder == InitOrder /\ [][NextOrder]_vars

(***************************************************************************)
(* Properties                                                              *)
(***************************************************************************)
AddOps == {"add_client", "add_product", "add_order"}

\* validate() of the entity the last add call was given
ValidArg(call) ==
    CASE call.op = "add_client" -> ClientValidate(call.arg)
      [] call.op = "add_product" -> ProductValidate(call.arg)
      [] call.op = "add_order" -> OrderValidate(call.arg)
      [] OTHER -> TRUE

\* The entity holds values of the declared field types (no None)
WellTyped(call) ==
    call.op = "add_order" =>
        /\ call.arg.status # NoneText
        /\ \A i \in 1..Len(call.arg.items) :
              /\ call.arg.items[i].product_id # None
              /\ call.arg.items[i].quantity # None
              /\ call.arg.items[i].price # None

\* What the get call for the kind of entity the call added returns
StoredKind(call) ==
    CASE call.op = "add_client" -> get_clients(connect)
      [] call.op = "add_product" -> get_products(connect)
      [] call.op = "add_order" -> get_orders(connect)

\* The entity of the call is returned by the get call under the id returned
Persisted(call) ==
    /\ call.ret # None
    /\ StoredKind(call).outcome = "ok"
    /\ \E i \in 1..Len(StoredKind(call).value) :
          StoredKind(call).value[i] = [call.arg EXCEPT !.id = call.ret]

RECURSIVE SumOfLineTotals(_)
SumOfLineTotals(items) ==
    IF items = <<>> THEN 0
    ELSE Head(items).quantity * Head(items).price + SumOfLineTotals(Tail(items))

\* C1: for every Order total_amount is the sum of quantity * price over its
\* items (0 when there are none), and add_item(product_id, quantity, price)
\* appends exactly one item at the end of the list and raises total_amount by
\* exactly quantity * price.
C1_TotalAmount ==
    /\ [](/\ total_amount(order) = SumOfLineTotals(order.items)
          /\ (order.items = <<>> => total_amount(order) = 0))
    /\ [][last'.op = "add_item" =>
             /\ order'.items = Append(order.items, last'.arg)
             /\ total_amount(order') =
                    total_amount(order) + last'.arg.quantity * last'.arg.price]_vars

\* add_item(1, 2, 10) then add_item(2, 1, 5) give 25
C1_Witness ==
    /\ last.op = "add_item"
    /\ order.items = <<OrderItem(1, 2, 10), OrderItem(2, 1, 5)>>
    /\ total_amount(order) = 25

\* C2: when validate() of the entity passed to add_client, add_product or
\* add_order is false, the call raises the validation error, returns no id,
\* and the stored clients, products, orders and order items are what they
\* were before the call.
C2_FailsClosed ==
    [][(last'.op \in AddOps /\ ~ValidArg(last')) =>
          /\ last'.outcome = "ValueError"
          /\ last'.ret = None
          /\ UNCHANGED <<clients, products, orders, order_items>>]_vars

\* An order without items is rejected by a store that holds data
C2_Witness ==
    /\ last.op = "add_order"
    /\ last.arg.items = <<>>
    /\ last.outcome = "ValueError"
    /\ clients # <<>>
    /\ orders # <<>>

C4_VisibleToLaterCalls ==
    (last.op \in AddOps /\ ValidArg(last) /\ WellTyped(last)
        /\ last.outcome # "IntegrityError")
    => Persisted(last)

\* The table an add call inserts its entity into
KindTable(op) ==
    CASE op = "add_client" -> "clients"
      [] op = "add_product" -> "products"
      [] op = "add_order" -> "orders"

\* The statements an add call runs for an entity
TxnFor(op, conn, entity) ==
    CASE op = "add_client" -> AddClientTxn(conn, entity)
      [] op = "add_product" -> AddProductTxn(conn, entity)
      [] op = "add_order" -> AddOrderTxn(conn, entity)

DistinctIds(result) ==
    result.outcome = "ok" =>
        \A i, j \in 1..Len(result.value) :
            i # j => result.value[i].id # result.value[j].id

\* C5: after any sequence of add_client, add_product, add_order and
\* import_from_json no two stored entities of a kind have the same id, and the
\* id an add call returns differs from every id returned before for that kind
\* and is the same whatever the id field of the entity passed in.
C5_IdsUnique ==
    /\ [](/\ DistinctIds(get_clients(connect))
          /\ DistinctIds(get_products(connect))
          /\ DistinctIds(get_orders(connect)))
    /\ [][(last'.op \in AddOps /\ last'.outcome = "ok") =>
             /\ last'.ret \notin returned[KindTable(last'.op)]
             /\ \A id \in {0, 5, 9} :
                   TxnFor(last'.op, connect,
                          [last'.arg EXCEPT !.id = id]).lastrowid = last'.ret]_vars

\* A client passed with id 9 is added after an import emptied the clients
\* table: it gets id 2, not the id 1 returned before the import.
C5_Witness ==
    /\ last.op = "add_client"
    /\ last.outcome = "ok"
    /\ last.arg.id = 9
    /\ last.ret = 2
    /\ Len(clients) = 1
    /\ returned["clients"] = {1, 2}

\* C6: after add_order(o) returned id k, get_orders returns the orders it
\* returned before, unchanged, followed by one order with id k that has o's
\* client_id, order_date, status and items (in o's order); no other order
\* has id k.
C6_AddOrderThenGetOrders ==
    [][(last'.op = "add_order" /\ last'.outcome = "ok") =>
          /\ get_orders(connect)'.outcome = "ok"
          /\ get_orders(connect)'.value =
                 Append(get_orders(connect).value,
                        [last'.arg EXCEPT !.id = last'.ret])
          /\ \A i \in 1..Len(get_orders(connect).value) :
                 get_orders(connect).value[i].id # last'.ret]_vars

\* An order of two items, dated with microseconds, is added to a store that
\* holds an order
C6_Witness ==
    /\ last.op = "add_order"
    /\ last.outcome = "ok"
    /\ Len(last.arg.items) = 2
    /\ last.arg.order_date.us # 0
    /\ Len(orders) = 2

\* C7: every write path of the gateway rejects an entity whose validate() is
\* false, so every stored client, product and order satisfies validate().
C7_StoredEntitiesValid ==
    /\ get_clients(connect).outcome = "ok" =>
          \A i \in 1..Len(clients) : ClientValidate(get_clients(connect).value[i])
    /\ get_products(connect).outcome = "ok" =>
          \A i \in 1..Len(products) : ProductValidate(get_products(connect).value[i])
    /\ get_orders(connect).outcome = "ok" =>
          \A i \in 1..Len(orders) : OrderValidate(get_orders(connect).value[i])

\* C8: when add_order fails at any step (validation, the insert of the order,
\* the insert of one of its items) the clients, products, orders and order
\* items stored are what they were before the call.
C8_AddOrderAllOrNothing ==
    [][(last'.op = "add_order" /\ last'.outcome # "ok") =>
          UNCHANGED <<clients, products, orders, order_items>>]_vars

\* The insert of the second item fails after the order row and the first item
\* were inserted, in a store that holds an order
C8_Witness ==
    /\ last.op = "add_order"
    /\ last.outcome = "IntegrityError"
    /\ Len(last.arg.items) = 2
    /\ last.arg.items[2].product_id = None
    /\ orders # <<>>
    /\ order_items # <<>>

\* The elements of xs whose key equals that of x, in their order in xs
RECURSIVE WithKeyOf(_, _, _)
WithKeyOf(xs, key, x) ==
    IF xs = <<>> THEN <<>>
    ELSE IF ~KeyLess(key, Head(xs), x) /\ ~KeyLess(key, x, Head(xs))
         THEN <<Head(xs)>> \o WithKeyOf(Tail(xs), key, x)
    ELSE WithKeyOf(Tail(xs), key, x)

Occurrences(xs, x) == Cardinality({i \in 1..Len(xs) : xs[i] = x})

\* C9: for a key in {date, amount, status} sort_orders returns a permutation
\* of its input, non-decreasing by the key (non-increasing with reverse), in
\* which the orders of equal key keep their order in the input.
C9_SortOrders ==
    (sortResult.outcome # "none" /\ sortInput.key \in SortKeys) =>
        LET xs == sortInput.orders
            ys == sortResult.value
            key == sortInput.key
        IN  /\ sortResult.outcome = "ok"
            /\ Len(ys) = Len(xs)
            /\ \A x \in SortPool : Occurrences(ys, x) = Occurrences(xs, x)
            /\ \A i, j \in 1..Len(ys) :
                  i < j => IF sortInput.reverse
                           THEN ~KeyLess(key, ys[i], ys[j])
                           ELSE ~KeyLess(key, ys[j], ys[i])
            /\ \A i \in 1..Len(xs) :
                  WithKeyOf(ys, key, xs[i]) = WithKeyOf(xs, key, xs[i])

\* A descending sort by date of three orders of which the first and the last
\* have the same date and different ids
C9_Witness ==
    /\ sortResult.outcome = "ok"
    /\ sortInput.reverse
    /\ sortInput.key = "date"
    /\ Len(sortInput.orders) = 3
    /\ sortInput.orders[1].id = 1
    /\ sortInput.orders[2].id = 2
    /\ sortInput.orders[3].id = 3
    /\ sortResult.value = <<sortInput.orders[2], sortInput.orders[1],
                            sortInput.orders[3]>>

\* C10: with a key outside {date, amount, status} sort_orders raises the
\* invalid-argument error (ValueError) for every list, the empty one
\* included, and returns nothing.
C10_UnknownKeyFails ==
    (sortResult.outcome # "none" /\ sortInput.key \notin SortKeys) =>
        (sortResult.outcome = "ValueError" /\ sortResult.value = <<>>)

\* The call with the unknown key on the empty list has raised
C10_Witness ==
    /\ sortInput.key = "id"
    /\ sortInput.orders = <<>>
    /\ sortResult.outcome = "ValueError"

\* The orders of xs that meet every criterion supplied, written as one
\* condition on an order
SameIgnoringCase(a, b) ==
    /\ Len(a) = Len(b)
    /\ \A i \in 1..Len(a) :
          \/ a[i] = b[i]
          \/ {a[i], b[i]} \in {{"N", "n"}, {"D", "d"}, {"O", "o"}}

NotAfter(a, b) == a.day < b.day \/ (a.day = b.day /\ a.us <= b.us)

Supplied(filters, criterion) == criterion \in DOMAIN filters

Satisfies(o, filters) ==
    /\ Supplied(filters, "client_id") => o.client_id = filters["client_id"]
    /\ Supplied(filters, "status") =>
          SameIgnoringCase(o.status, filters["status"])
    /\ Supplied(filters, "min_amount") =>
          SumOfLineTotals(o.items) >= filters["min_amount"]
    /\ Supplied(filters, "max_amount") =>
          SumOfLineTotals(o.items) <= filters["max_amount"]
    /\ Supplied(filters, "start_date") =>
          NotAfter(filters["start_date"], o.order_date)
    /\ Supplied(filters, "end_date") =>
          NotAfter(o.order_date, filters["end_date"])

Satisfying(xs, filters) == SelectSeq(xs, LAMBDA o : Satisfies(o, filters))

\* C11: filter_orders with no criteria returns the input unchanged (same
\* elements, same order); with min_amount and max_amount both set every
\* returned order's total_amount lies in [min_amount, max_amount], and when
\* these are the only criteria no input order whose total lies in the
\* interval is left out.
C11_FilterNoneAndAmountRange ==
    filterResult.outcome # "none" =>
        LET xs == filterInput.orders
            ys == filterResult.value
            filters == filterInput.filters
            InRange(o) == /\ filters["min_amount"] <= SumOfLineTotals(o.items)
                          /\ SumOfLineTotals(o.items) <= filters["max_amount"]
        IN  /\ filterResult.outcome = "ok"
            /\ DOMAIN filters = {} => ys = xs
            /\ {"min_amount", "max_amount"} \subseteq DOMAIN filters =>
                  \A i \in 1..Len(ys) : InRange(ys[i])
            /\ DOMAIN filters = {"min_amount", "max_amount"} =>
                  ys = SelectSeq(xs, InRange)

\* With min_amount = max_amount = 5 and nothing else, the orders of amounts
\* 20, 5, 5 give the two orders of amount 5
C11_Witness ==
    /\ filterResult.outcome = "ok"
    /\ DOMAIN filterInput.filters = {"min_amount", "max_amount"}
    /\ filterInput.filters["min_amount"] = 5
    /\ filterInput.filters["max_amount"] = 5
    /\ Len(filterInput.orders) = 3
    /\ filterInput.orders[1].id = 1
    /\ Len(filterResult.value) = 2

FilterKeys ==
    {"client_id", "status", "min_amount", "max_amount", "start_date",
     "end_date"}

RECURSIVE IsSubsequence(_, _)
IsSubsequence(ys, xs) ==
    IF ys = <<>> THEN TRUE
    ELSE IF xs = <<>> THEN FALSE
    ELSE IF Head(ys) = Head(xs) THEN IsSubsequence(Tail(ys), Tail(xs))
    ELSE IsSubsequence(ys, Tail(xs))

\* C12: for any subset of the six criteria filter_orders returns exactly the
\* subsequence of the input, in input order, of the orders that satisfy every
\* supplied predicate (client id equal, status equal ignoring case, amount
\* and date bounds inclusive), and one more criterion never adds an order.
C12_FilterIsConjunction ==
    filterResult.outcome # "none" =>
        LET xs == filterInput.orders
            ys == filterResult.value
            filters == filterInput.filters
        IN  /\ filterResult.outcome = "ok"
            /\ ys = Satisfying(xs, filters)
            /\ IsSubsequence(ys, xs)
            /\ \A criterion \in FilterKeys \ DOMAIN filters :
                  \A v \in FilterValues(criterion) :
                      IsSubsequence(
                          filter_orders(xs, filters @@ (criterion :> v)).value,
                          ys)

\* All six criteria are supplied; of three orders the one of another client is
\* dropped and the two kept have statuses "N" and "n" and lie on the bounds
C12_Witness ==
    /\ filterResult.outcome = "ok"
    /\ DOMAIN filterInput.filters = FilterKeys
    /\ Len(filterInput.orders) = 3
    /\ Len(filterResult.value) = 2
    /\ filterResult.value[1].id = 2
    /\ filterResult.value[2].id = 1

EmailsOfShape == {EmailA, EmailA \o <<"\n">>}

PhoneFormatted ==
    <<"+", "7", " ", "(", "1", "2", "3", ")", " ", "4", "5", "6", "-", "7", "8",
      "-", "9", "0">>

PhonesOfShape ==
    {GoodPhone, PhoneFormatted,
     <<"8", " ", "9", "1", "2", " ", "3", "4", "5", " ", "6", "7", " ", "8",
       "9">>,
     <<"+", "7", "(", "9", "1", "2", "3", "4", "5", "6", "7", "8", "9">>}

\* C14: Client.validate() is true if and only if the email matches the email
\* shape, the phone matches the national phone shape, and name and address
\* are both non-empty.
C14_ClientValidate ==
    (validated.done /\ candidate.kind = "client") =>
        (validated.result <=>
            /\ candidate.value.email \in EmailsOfShape
            /\ candidate.value.phone \in PhonesOfShape
            /\ candidate.value.name # <<>>
            /\ candidate.value.address # <<>>)

\* The client of the test, "+7 (123) 456-78-90", is valid
C14_Witness ==
    /\ validated.done
    /\ validated.result
    /\ candidate.kind = "client"
    /\ candidate.value.phone = PhoneFormatted

\* C15: Product.validate() is true if and only if the name is non-empty and
\* the price is strictly positive.
C15_ProductValidate ==
    (validated.done /\ candidate.kind = "product") =>
        (validated.result <=>
            /\ candidate.value.name # <<>>
            /\ candidate.value.price # NaN
            /\ candidate.value.price > 0)

\* C16: Order.validate() is true if and only if the order references a client
\* (client_id is neither None nor 0) and has at least one item, whatever the
\* status, the date, the quantities and prices of the items, and whether or
\* not the store holds that client.
C16_OrderValidate ==
    (validated.done /\ candidate.kind = "order") =>
        (validated.result <=>
            /\ candidate.value.client_id # None
            /\ candidate.value.client_id # 0
            /\ candidate.value.items # <<>>)

\* An order for client 5, which the store does not hold, with one item of
\* quantity 0 and price 0 and an empty status, is valid
C16_Witness ==
    /\ validated.done
    /\ validated.result
    /\ candidate.kind = "order"
    /\ candidate.value.client_id = 5
    /\ candidate.value.status = <<>>
    /\ candidate.value.items = <<OrderItem(1, 0, 0)>>
    /\ clients # <<>>

\* What the tables say about the orders of a client
StoredClientIds == {clients[i].id : i \in 1..Len(clients)}

OrderIdsOf(client_id) ==
    {orders[i].id : i \in {j \in 1..Len(orders) : orders[j].client_id = client_id}}

OrderCount(client_id) == Cardinality(OrderIdsOf(client_id))

RECURSIVE ItemsTotal(_, _)
ItemsTotal(rows, order_ids) ==
    IF rows = <<>> THEN 0
    ELSE (IF Head(rows).order_id \in order_ids
          THEN Head(rows).quantity * Head(rows).price ELSE 0)
         + ItemsTotal(Tail(rows), order_ids)

ClientsWithOrders == {c \in StoredClientIds : OrderCount(c) >= 1}

\* The place of the first order of a client among the stored orders
FirstMet(client_id) ==
    CHOOSE i \in 1..Len(orders) :
        /\ orders[i].client_id = client_id
        /\ \A j \in 1..(i - 1) : orders[j].client_id # client_id

Ranked(es) == {es[i].client.id : i \in 1..Len(es)}

Min(a, b) == IF a <= b THEN a ELSE b

\* C17: get_top_clients_by_orders(limit) returns min(limit, number of clients
\* with at least one order) entries in non-increasing order of order_count,
\* each with the number of the client's stored orders and the sum of their
\* totals, and no client left out has more orders than a client included.
C17_TopClients ==
    report.op = "get_top_clients_by_orders" =>
        LET es == report.value
        IN  /\ report.outcome = "ok"
            /\ \A i, j \in 1..Len(es) :
                  i < j => es[i].order_count >= es[j].order_count
            /\ Len(es) = Min(report.arg, Cardinality(ClientsWithOrders))
            /\ \A i \in 1..Len(es) :
                  /\ es[i].client.id \in StoredClientIds
                  /\ es[i].order_count = OrderCount(es[i].client.id)
                  /\ es[i].total_spent =
                         ItemsTotal(order_items, OrderIdsOf(es[i].client.id))
            /\ \A c \in ClientsWithOrders \ Ranked(es) :
                  \A i \in 1..Len(es) : OrderCount(c) <= es[i].order_count

\* C18: clients with equal order counts are ranked in the order in which
\* their first order is met in get_orders, for the entries returned and
\* against the clients left out, and a second call on the same store returns
\* the same ranking.
C18_TiesByFirstOrder ==
    report.op = "get_top_clients_by_orders" =>
        LET es == report.value
            Before(a, ca, b, cb) ==
                ca > cb \/ (ca = cb /\ FirstMet(a) < FirstMet(b))
        IN  /\ report.outcome = "ok"
            /\ \A i, j \in 1..Len(es) :
                  i < j => Before(es[i].client.id, es[i].order_count,
                                  es[j].client.id, es[j].order_count)
            /\ \A c \in ClientsWithOrders \ Ranked(es) :
                  \A i \in 1..Len(es) :
                      Before(es[i].client.id, es[i].order_count,
                             c, OrderCount(c))
            /\ get_top_clients_by_orders(connect, report.arg).value = es

\* The orders are of clients 3, 2, 1, 1 in this order and the limit is 2: the
\* ranking is client 1 (2 orders), then client 3, whose order comes first
C18_Witness ==
    /\ report.op = "get_top_clients_by_orders"
    /\ report.arg = 2
    /\ Len(clients) = 3
    /\ [i \in 1..Len(orders) |-> orders[i].client_id] = <<3, 2, 1, 1>>
    /\ Len(report.value) = 2
    /\ report.value[1].client.id = 1
    /\ report.value[1].order_count = 2
    /\ report.value[2].client.id = 3

\* C19: get_sales_statistics returns the numbers of stored orders, clients
\* and products, the sum of the totals of all stored orders, and an average
\* with average * total_orders = total_revenue; with no orders it returns 0
\* orders, revenue 0 and average 0 and raises no division fault.
C19_SalesStatistics ==
    report.op = "get_sales_statistics" =>
        /\ report.outcome = "ok"
        /\ report.value.total_orders = Len(orders)
        /\ report.value.total_revenue =
               ItemsTotal(order_items, {orders[i].id : i \in 1..Len(orders)})
        /\ report.value.total_clients = Len(clients)
        /\ report.value.total_products = Len(products)
        /\ report.value.avg_order_value.den # 0
        /\ report.value.avg_order_value.num * report.value.total_orders =
               report.value.total_revenue * report.value.avg_order_value.den
        /\ orders = <<>> =>
               /\ report.value.total_orders = 0
               /\ report.value.total_revenue = 0
               /\ report.value.avg_order_value.num = 0

\* The statistics of a store with three clients, two products and no order
C19_Witness ==
    /\ report.op = "get_sales_statistics"
    /\ report.outcome = "ok"
    /\ orders = <<>>
    /\ Len(clients) = 3
    /\ Len(products) = 2
    /\ report.value.avg_order_value.num = 0

\* The product ids of the items of all stored orders of a client
ProductsOf(client_id) ==
    {order_items[k].product_id :
        k \in {i \in 1..Len(order_items) :
                  order_items[i].order_id \in OrderIdsOf(client_id)}}

\* C20: the graph of create_clients_network has an edge between two distinct
\* clients if and only if the sets of product ids they have ordered
\* intersect, the weight of the edge is the size of the intersection, and
\* there is no self-loop.
C20_ClientsNetwork ==
    report.op = "create_clients_network" =>
        LET edges == report.value.edges
        IN  /\ report.outcome = "ok"
            /\ \A e \in edges : Cardinality(e.ends) = 2
            /\ \A e, f \in edges : e.ends = f.ends => e = f
            /\ \A a, b \in StoredClientIds :
                  a # b =>
                      /\ (\E e \in edges : e.ends = {a, b})
                             <=> ProductsOf(a) \cap ProductsOf(b) # {}
                      /\ \A e \in edges :
                            e.ends = {a, b} =>
                                e.weight = Cardinality(ProductsOf(a)
                                                       \cap ProductsOf(b))

\* Clients 1 and 2 have both ordered product 1 (client 1 twice) and client 3
\* only product 2: the one edge is 1 - 2 with weight 1
C20_Witness ==
    /\ report.op = "create_clients_network"
    /\ Len(clients) = 3
    /\ Len(orders) = 4
    /\ ProductsOf(1) = {1}
    /\ ProductsOf(2) = {1}
    /\ ProductsOf(3) = {2}
    /\ OrderCount(1) = 2
    /\ report.value.edges = {[ends |-> {1, 2}, weight |-> 1]}

\* C21: the node set of the graph returned by create_clients_network is
\* exactly the set of stored client ids, one node per client, and every node
\* carries its client's name as label.
C21_NetworkNodes ==
    report.op = "create_clients_network" =>
        /\ report.outcome = "ok"
        /\ {n.id : n \in report.value.nodes} = StoredClientIds
        /\ Cardinality(report.value.nodes) = Cardinality(StoredClientIds)
        /\ \A n \in report.value.nodes :
              \E i \in 1..Len(clients) :
                  clients[i].id = n.id /\ n.label = clients[i].name

\* The product ids of the items of the stored orders, and the summed quantity
\* of each
ProductsSold == {order_items[i].product_id : i \in 1..Len(order_items)}

RECURSIVE QuantitySold(_, _)
QuantitySold(rows, product_id) ==
    IF rows = <<>> THEN 0
    ELSE (IF Head(rows).product_id = product_id THEN Head(rows).quantity ELSE 0)
         + QuantitySold(Tail(rows), product_id)

StoredProductNames(product_id) ==
    {products[i].name : i \in {j \in 1..Len(products) : products[j].id = product_id}}

\* C22: the top-products aggregation sums the item quantities per product id
\* over all items of all stored orders, orders the products by non-increasing
\* summed quantity, and yields min(limit, number of distinct products sold)
\* products, no omitted product having a larger summed quantity than an
\* included one.
C22_TopProducts ==
    report.op = "plot_top_products" =>
        LET bars == report.value
        IN  /\ report.outcome = "ok"
            /\ Len(bars) = Min(report.arg, Cardinality(ProductsSold))
            /\ \A i, j \in 1..Len(bars) : i < j => bars[i].count >= bars[j].count
            /\ \A i \in 1..Len(bars) :
                  \E p \in ProductsSold :
                      /\ bars[i].name \in StoredProductNames(p)
                      /\ bars[i].count = QuantitySold(order_items, p)
            /\ \A p \in ProductsSold :
                  (\A i \in 1..Len(bars) : bars[i].name \notin StoredProductNames(p))
                      => \A i \in 1..Len(bars) :
                            QuantitySold(order_items, p) <= bars[i].count

\* C23: exporting the full store with export_to_json and importing that
\* document with import_from_json into an empty store yields the same numbers
\* of clients, products and orders and the same get_sales_statistics result
\* as the exported store.
C23_RoundTripStatistics ==
    report.op = "import_from_json" =>
        /\ report.outcome = "ok"
        /\ get_clients(report.value).outcome = "ok"
        /\ Len(get_clients(report.value).value) = Len(get_clients(connect).value)
        /\ Len(get_products(report.value).value) = Len(get_products(connect).value)
        /\ Len(get_orders(report.value).value) = Len(get_orders(connect).value)
        /\ get_sales_statistics(report.value) = get_sales_statistics(connect)
        /\ get_sales_statistics(report.value).outcome = "ok"

\* A store with two orders and three items, whose ids were shifted by an
\* earlier import, is exported and imported into the copy
C23_Witness ==
    /\ report.op = "import_from_json"
    /\ report.outcome = "ok"
    /\ Len(orders) = 2
    /\ Len(order_items) = 3
    /\ orders[1].id > 1
    /\ get_sales_statistics(report.value).value.total_revenue = 45

\* The rows of a table that have the id, without the id
FieldsOf(rows, id) ==
    {[rows[i] EXCEPT !.id = 0] : i \in {j \in 1..Len(rows) : rows[j].id = id}}

\* A ranking of get_top_clients_by_orders with the ids taken out
WithoutIds(entries) ==
    [i \in 1..Len(entries) |->
        [entries[i] EXCEPT !.client = [entries[i].client EXCEPT !.id = 0]]]

\* C24: after export_to_json and import_from_json each order refers to the
\* client, and each of its items to the product, that has the same field
\* values as the one it referred to before the export, so that
\* get_top_clients_by_orders gives the same result up to renaming of ids.
C24_RoundTripReferences ==
    (report.op = "import_from_json" /\ report.outcome = "ok") =>
        /\ Len(report.value.orders) = Len(orders)
        /\ Len(report.value.order_items) = Len(order_items)
        /\ \A i \in 1..Len(orders) :
              FieldsOf(report.value.clients, report.value.orders[i].client_id)
                  = FieldsOf(clients, orders[i].client_id)
        /\ \A i \in 1..Len(order_items) :
              FieldsOf(report.value.products,
                       report.value.order_items[i].product_id)
                  = FieldsOf(products, order_items[i].product_id)
        /\ WithoutIds(get_top_clients_by_orders(report.value, 5).value)
               = WithoutIds(get_top_clients_by_orders(connect, 5).value)

StoredProductIds == {products[i].id : i \in 1..Len(products)}

\* An order refers to no stored client, or an item to no stored product
UnresolvedReference ==
    \/ \E i \in 1..Len(orders) : orders[i].client_id \notin StoredClientIds
    \/ \E i \in 1..Len(order_items) :
          order_items[i].product_id \notin StoredProductIds

\* C25: when a stored order's client_id (or an item's product_id) matches no
\* stored client (or product), get_top_clients_by_orders, the top-products
\* aggregation, create_clients_network and the order listing all complete
\* without error, and the listing shows the placeholder client name for an
\* order whose client is not stored (and the client's name otherwise).
C25_UnresolvedReferenceNeverFails ==
    (/\ UnresolvedReference
     /\ report.op \in {"get_top_clients_by_orders", "plot_top_products",
                       "create_clients_network", "load_orders"}) =>
        /\ report.outcome = "ok"
        /\ report.op = "load_orders" =>
              /\ Len(report.value) = Len(orders)
              /\ \A i \in 1..Len(orders) :
                    /\ report.value[i].id = orders[i].id
                    /\ orders[i].client_id \notin StoredClientIds =>
                          report.value[i].client_name = UnknownClientName
                    /\ orders[i].client_id \in StoredClientIds =>
                          \E k \in 1..Len(clients) :
                              /\ clients[k].id = orders[i].client_id
                              /\ report.value[i].client_name = clients[k].name

\* The listing of two orders, the first of client 3, who is not stored, and
\* the second of client 1
C25_Witness ==
    /\ report.op = "load_orders"
    /\ report.outcome = "ok"
    /\ StoredClientIds = {1, 2}
    /\ Len(orders) = 2
    /\ orders[1].client_id = 3
    /\ orders[2].client_id = 1
    /\ report.value[1].client_name = UnknownClientName
    /\ report.value[2].client_name = <<"N">>

\* C26: in every state reachable by add_client, add_product, add_order and
\* import_from_json, every stored order's client_id is the id of a stored
\* client and every stored order item's product_id is the id of a stored
\* product.
C26_ReferentialIntegrity ==
    /\ \A i \in 1..Len(orders) : orders[i].client_id \in StoredClientIds
    /\ \A i \in 1..Len(order_items) :
          order_items[i].product_id \in StoredProductIds

\* C27: import_from_json is all-or-nothing: if it fails after it has started
\* clearing the tables (a record lacks a required field, or an insert is
\* rejected by the store, e.g. two clients of the document share an email),
\* the store afterwards holds exactly the clients, products, orders and items
\* it held before the call.
C27_ImportAllOrNothing ==
    [][(last'.op = "import_from_json" /\ last'.outcome # "ok") =>
          UNCHANGED <<clients, products, orders, order_items>>]_vars

\* The second client of the document has the email of the first: the import
\* fails after the tables were cleared and one client was inserted, in a store
\* that holds a client, an order and an item
C27_Witness ==
    /\ last.op = "import_from_json"
    /\ last.outcome = "IntegrityError"
    /\ "clients" \in DOMAIN last.arg
    /\ Len(last.arg.clients) = 2
    /\ clients # <<>>
    /\ orders # <<>>
    /\ order_items # <<>>

\* The item records of the document's orders, in document order
RECURSIVE DocItems(_)
DocItems(ds) ==
    IF ds = <<>> THEN <<>>
    ELSE GetOr(Head(ds), "items", <<>>) \o DocItems(Tail(ds))

\* The place in the document's orders of the order that holds the k-th item
RECURSIVE DocOrderOfItem(_, _)
DocOrderOfItem(ds, k) ==
    IF k <= Len(GetOr(Head(ds), "items", <<>>)) THEN 1
    ELSE 1 + DocOrderOfItem(Tail(ds), k - Len(GetOr(Head(ds), "items", <<>>)))

\* C28: a successful import_from_json replaces the store's contents:
\* afterwards the stored clients, products, orders and items are exactly the
\* records of the document, in document order, and nothing stored before the
\* import remains; a document section that is absent is imported as an empty
\* collection.
C28_ImportReplaces ==
    [][(last'.op = "import_from_json" /\ last'.outcome = "ok") =>
          LET data == last'.arg
              cs == GetOr(data, "clients", <<>>)
              ps == GetOr(data, "products", <<>>)
              os == GetOr(data, "orders", <<>>)
              items == DocItems(os)
          IN  /\ Len(clients') = Len(cs)
              /\ \A i \in 1..Len(cs) :
                    /\ [clients'[i] EXCEPT !.id = 0]
                           = [id |-> 0, name |-> cs[i].name, email |-> cs[i].email,
                              phone |-> cs[i].phone, address |-> cs[i].address,
                              registration_date |-> cs[i].registration_date]
                    /\ \A j \in 1..Len(clients) : clients[j].id < clients'[i].id
              /\ Len(products') = Len(ps)
              /\ \A i \in 1..Len(ps) :
                    /\ [products'[i] EXCEPT !.id = 0]
                           = [id |-> 0, name |-> ps[i].name, price |-> ps[i].price,
                              category |-> ps[i].category,
                              description |-> GetOr(ps[i], "description", <<>>)]
                    /\ \A j \in 1..Len(products) : products[j].id < products'[i].id
              /\ Len(orders') = Len(os)
              /\ \A i \in 1..Len(os) :
                    /\ [orders'[i] EXCEPT !.id = 0]
                           = [id |-> 0, client_id |-> os[i].client_id,
                              order_date |-> os[i].order_date,
                              status |-> os[i].status]
                    /\ \A j \in 1..Len(orders) : orders[j].id < orders'[i].id
              /\ Len(order_items') = Len(items)
              /\ \A k \in 1..Len(items) :
                    /\ [order_items'[k] EXCEPT !.id = 0]
                           = [id |-> 0,
                              order_id |-> orders'[DocOrderOfItem(os, k)].id,
                              product_id |-> items[k].product_id,
                              quantity |-> items[k].quantity,
                              price |-> items[k].price]
                    /\ \A j \in 1..Len(order_items) :
                          order_items[j].id < order_items'[k].id]_vars

\* A document with one order record and no clients or products section is
\* imported into a store that holds a client, a product, an order and an item:
\* afterwards the store holds the one order and nothing else
C28_Witness ==
    /\ last.op = "import_from_json"
    /\ last.outcome = "ok"
    /\ DOMAIN last.arg = {"orders"}
    /\ sqlite_sequence["clients"] = 1
    /\ sqlite_sequence["products"] = 1
    /\ sqlite_sequence["order_items"] = 1
    /\ sqlite_sequence["orders"] = 2
    /\ clients = <<>>
    /\ products = <<>>
    /\ order_items = <<>>
    /\ Len(orders) = 1
    /\ orders[1].id = 2
    /\ orders[1].client_id = 5

\* C29: after any sequence of add_order_item steps followed by a successful
\* create_order the stored order contains exactly one item per staged line, in
\* staging order, each with the product id the user selected for that line and
\* the quantity and unit price captured when it was staged, and the staging
\* list is then empty; when create_order fails or is rejected, the staging
\* list is unchanged and no order is stored.
C29_OrderForm ==
    [][last'.op = "create_order" =>
          IF last'.outcome = "ok"
          THEN /\ Len(orders') = Len(orders) + 1
               /\ SubSeq(orders', 1, Len(orders)) = orders
               /\ ItemsOfOrder(order_items', orders'[Len(orders')].id)
                      = [i \in 1..Len(order_items_tree) |->
                            OrderItem(order_items_tree[i].selected,
                                      order_items_tree[i].quantity,
                                      order_items_tree[i].price)]
               /\ order_items_tree' = <<>>
          ELSE /\ order_items_tree' = order_items_tree
               /\ UNCHANGED <<orders, order_items>>]_vars
====
